---------------------------- MODULE Spec2Model ----------------------------
(***************************************************************************)
(* Model of the ai-todo-manager application tier:                          *)
(*   - the Filter/Sort Engine of the main page (filteredAndSortedTodos),   *)
(*   - the natural-language extraction endpoint (generate-todo POST),      *)
(*   - the analysis endpoint (analyze-todos POST) with its aggregator.     *)
(* Strings are sequences of one-character strings, timestamps are          *)
(* integers, a nullable field is the empty sequence (null) or a            *)
(* one-element sequence (the value).                                       *)
(***************************************************************************)
EXTENDS Integers, Sequences, FiniteSets, TLC

VARIABLES
    \* ---- main page (HomePage) state
    todos,                  \* useState<Todo[]>
    searchQuery,            \* useState("")
    statusFilter,           \* "all" | "completed" | "pending" | "waiting"
    priorityFilter,         \* "all" | Priority
    sortBy,                 \* "created" | "due" | "priority" | "title"
    sortOrder,              \* "asc" | "desc"
    isAnalyzing,            \* useState(false)
    analysisPeriod,         \* useState<"today" | "week">("today")
    analysisLocals,         \* handleAnalyzeTodos: its window and its fetch
    analysisData,           \* useState<{ summary, ... } | null>(null)
    analysisError,          \* useState<string | null>(null)
    filteredTodosForAnalysis, \* useState<Todo[]>([])
    analysisCalls,          \* the runs of handleAnalyzeTodos that await fetch
    analysisToast,          \* the toast handleAnalyzeTodos showed last
    currentUser,            \* useState<{ id, ... } | null>(null): the user's id
    isLoading,              \* useState(true): fetchUser has not finished
    editingTodo,            \* useState<Todo | null>(null)
    formCompleted,          \* TodoForm: useState(todo?.completed || false)
    \* ---- the form that adds a task (TodoForm without a todo)
    formTitle,              \* useState(todo?.title || "")
    formDescription,        \* useState(todo?.description || "")
    formDueDate,            \* useState(...): "YYYY-MM-DDTHH:MM" or ""
    formPriority,           \* useState<Priority | "none">
    formCategories,         \* useState<string[]>
    aiInput,                \* useState("")
    isGenerating,           \* useState(false)
    aiCall,                 \* the input of the run of handleAiGenerate that awaits fetch
    aiData,                 \* handleAiGenerate: data of the last response that was ok
    aiToast,                \* the toast handleAiGenerate showed last
    \* ---- the Task Record Store and the page's requests to it
    store,                  \* the rows of the todos table
    calls,                  \* the handlers of the page that wait for the store
    errorToasted,           \* toast.error was called
    \* ---- server environment
    apiKey,                 \* GOOGLE_GENERATIVE_AI_API_KEY is set
    nodeEnv,                \* NODE_ENV
    now,                    \* koreaTime of the request being served
    \* ---- one request served by an AI endpoint
    pc,                     \* "idle" | "awaiting" (generateObject) | "responded"
    request,                \* the endpoint called and the request body
    locals,                 \* the handler's local values kept across the await
    remoteCalls,            \* the calls made to the generative service
    remote,                 \* what generateObject resolved or rejected with
    response                \* the NextResponse returned

pageVars == <<todos, searchQuery, statusFilter, priorityFilter, sortBy,
              sortOrder>>

apiVars == <<apiKey, nodeEnv, now, pc, request, locals, remoteCalls, remote,
             response>>

analysisVars == <<isAnalyzing, analysisPeriod, analysisLocals, analysisData,
                  analysisError, filteredTodosForAnalysis, analysisCalls,
                  analysisToast>>

storeVars == <<currentUser, isLoading, editingTodo, formCompleted, store, calls,
               errorToasted>>

formVars == <<formTitle, formDescription, formDueDate, formPriority,
              formCategories, aiInput, isGenerating, aiCall, aiData, aiToast>>

clientVars == <<analysisVars, storeVars, formVars>>

vars == <<pageVars, clientVars, apiVars>>

-----------------------------------------------------------------------------
(* Bounds of the model *)

\* Largest number of tasks the store returns to the page.
MaxTodos == 2

\* Largest number of tasks in an analysis request (the list that shows the
\* cap of the urgent shortlist is longer: MaxUrgentTasks + MaxBeyondCap).
MaxAnalyzed == 3
MaxBeyondCap == 1

\* Largest number of words in the message of a remote failure.
MaxErrorWords == 2

\* Largest number of handlers of the page that wait for the store at once,
\* and largest id the store gives to a row.
MaxCalls == 2
MaxRows == 2

\* Largest number of analysis requests that await their answer at once.
MaxAnalyses == 2

-----------------------------------------------------------------------------
(* Values *)

\* A nullable field: null, or the value v.
Null == <<>>
Some(v) == <<v>>

Priority == {"high", "medium", "low"}

StatusFilters == {"all", "completed", "pending", "waiting"}
PriorityFilters == {"all"} \cup Priority
SortKeys == {"created", "due", "priority", "title"}
SortOrders == {"asc", "desc"}

\* Input sets: titles, search texts, timestamps.
Titles == {<<"a", "b">>, <<"B">>}
SearchTexts == {<<>>, <<" ">>, <<"A">>, <<" ", "b">>}
DueStamps == {1, 2}
CreatedStamps == {1, 2}

-----------------------------------------------------------------------------
(* String helpers (JavaScript String.prototype) *)

IsWhitespace(c) == c \in {" ", "\t"}

LowerChar(c) ==
    CASE c = "A" -> "a"
      [] c = "B" -> "b"
      [] OTHER -> c

ToLowerCase(s) == [i \in 1..Len(s) |-> LowerChar(s[i])]

\* The positions of s that hold no whitespace.
NonWhitespaceAt(s) == {i \in 1..Len(s) : ~IsWhitespace(s[i])}

SetMin(S) == CHOOSE i \in S : \A j \in S : i <= j
SetMax(S) == CHOOSE i \in S : \A j \in S : i >= j

TrimStart(s) ==
    IF NonWhitespaceAt(s) = {} THEN <<>>
    ELSE SubSeq(s, SetMin(NonWhitespaceAt(s)), Len(s))

TrimEnd(s) ==
    IF NonWhitespaceAt(s) = {} THEN <<>>
    ELSE SubSeq(s, 1, SetMax(NonWhitespaceAt(s)))

Trim(s) == TrimEnd(TrimStart(s))

Includes(s, q) ==
    \E i \in 0..(Len(s) - Len(q)) : SubSeq(s, i + 1, i + Len(q)) = q

\* Collation of localeCompare(_, "ko") on the letters used: letters first
\* (primary strength), case as the tie-break (lower case first).
LetterRank(c) ==
    CASE c = " " -> 0
      [] LowerChar(c) = "a" -> 1
      [] LowerChar(c) = "b" -> 2
      [] OTHER -> 3

CaseRank(c) == IF LowerChar(c) = c THEN 0 ELSE 1

RECURSIVE LexCompare(_, _, _)
LexCompare(s, t, byCase) ==
    IF s = <<>> /\ t = <<>> THEN 0
    ELSE IF s = <<>> THEN -1
    ELSE IF t = <<>> THEN 1
    ELSE LET a == IF byCase THEN CaseRank(Head(s)) ELSE LetterRank(Head(s))
             b == IF byCase THEN CaseRank(Head(t)) ELSE LetterRank(Head(t))
         IN  IF a < b THEN -1
             ELSE IF a > b THEN 1
             ELSE LexCompare(Tail(s), Tail(t), byCase)

LocaleCompare(s, t) ==
    IF LexCompare(s, t, FALSE) # 0
    THEN LexCompare(s, t, FALSE)
    ELSE LexCompare(s, t, TRUE)

-----------------------------------------------------------------------------
(* Filter/Sort Engine *)

SearchMatches(todo, q) ==
    IF Trim(q) # <<>>
    THEN Includes(ToLowerCase(todo.title), ToLowerCase(q))
    ELSE TRUE

\* A status filter whose `waiting` also keeps completed tasks.
StatusMatchesWaitingCompleted(todo, st) ==
    CASE st = "completed" -> todo.completed
      [] st = "pending" -> ~todo.completed
      [] st = "waiting" -> todo.due_date = Null
      [] OTHER -> TRUE

StatusMatches(todo, st) ==
    CASE st = "completed" -> todo.completed
      [] st = "pending" -> ~todo.completed
      [] st = "waiting" -> ~todo.completed /\ todo.due_date = Null
      [] OTHER -> TRUE

\* A priority filter that lets tasks without a priority through.
PriorityMatchesOrUnset(todo, pf) ==
    IF pf # "all" THEN todo.priority \in {Null, Some(pf)} ELSE TRUE

PriorityMatches(todo, pf) ==
    IF pf # "all" THEN todo.priority = Some(pf) ELSE TRUE

priorityOrder(p) ==
    CASE p = Some("high") -> 3
      [] p = Some("medium") -> 2
      [] p = Some("low") -> 1
      [] OTHER -> 0

\* The comparator's `comparison` before the direction is applied.
Comparison(a, b, sb) ==
    CASE sb = "created" -> a.created_date - b.created_date
      [] sb = "due" ->
            IF a.due_date = Null /\ b.due_date = Null THEN 0
            ELSE IF a.due_date = Null THEN 1
            ELSE IF b.due_date = Null THEN -1
            ELSE a.due_date[1] - b.due_date[1]
      [] sb = "priority" -> priorityOrder(a.priority) - priorityOrder(b.priority)
      [] sb = "title" -> LocaleCompare(a.title, b.title)
      [] OTHER -> 0

\* A comparator that ignores the direction.
ComparatorAscending(a, b, sb, so) == Comparison(a, b, sb)

Comparator(a, b, sb, so) ==
    IF so = "desc" THEN 0 - Comparison(a, b, sb) ELSE Comparison(a, b, sb)

\* A sort that also moves x left past the elements that compare equal to it.
InsertSortedUnstable(sorted, x, sb, so) ==
    IF sorted = <<>> THEN <<x>>
    ELSE IF Comparator(sorted[Len(sorted)], x, sb, so) >= 0
         THEN <<x>> \o sorted
         ELSE Append(sorted, x)

\* Array.prototype.sort: a stable sort; x moves left past every element that
\* the comparator orders after it.
RECURSIVE InsertSorted(_, _, _, _)
InsertSorted(sorted, x, sb, so) ==
    IF sorted = <<>> THEN <<x>>
    ELSE IF Comparator(sorted[Len(sorted)], x, sb, so) > 0
         THEN Append(InsertSorted(SubSeq(sorted, 1, Len(sorted) - 1), x, sb, so),
                     sorted[Len(sorted)])
         ELSE Append(sorted, x)

RECURSIVE ArraySort(_, _, _)
ArraySort(s, sb, so) ==
    IF s = <<>> THEN <<>>
    ELSE InsertSorted(ArraySort(SubSeq(s, 1, Len(s) - 1), sb, so),
                      s[Len(s)], sb, so)

FilterSort(ts, q, st, pf, sb, so) ==
    LET bySearch == SelectSeq(ts, LAMBDA t : SearchMatches(t, q))
        byStatus == SelectSeq(bySearch, LAMBDA t : StatusMatches(t, st))
        byPriority == SelectSeq(byStatus, LAMBDA t : PriorityMatches(t, pf))
    IN  ArraySort(byPriority, sb, so)

-----------------------------------------------------------------------------
(* The task sets the store's list operation returns: at most MaxTodos tasks, *)
(* ids unique, ordered by created_date descending.                           *)

WithId(f, i) ==
    [id |-> i, title |-> f.title, completed |-> f.completed,
     due_date |-> f.due_date, priority |-> f.priority,
     created_date |-> f.created_date]

StoreLists(fields) ==
    UNION {
        {[i \in 1..n |-> WithId(fs[i], i)] :
            fs \in {g \in [1..n -> fields] :
                      \A i \in 1..n, j \in 1..n :
                          i < j => g[i].created_date >= g[j].created_date}}
        : n \in 0..MaxTodos}

-----------------------------------------------------------------------------
(* Main page: state after construction and the filter controls *)

\* useMemo over [todos, searchQuery, statusFilter, priorityFilter, sortBy,
\* sortOrder]: the list the page displays is this value of the current state.
filteredAndSortedTodos ==
    FilterSort(todos, searchQuery, statusFilter, priorityFilter, sortBy, sortOrder)

\* The page once its first fetchTodos has settled: the store's list is the
\* local task set, the filter controls hold their initial values.
\* No analysis has been asked for.
AnalysisIdle ==
    /\ isAnalyzing = FALSE
    /\ analysisPeriod = "today"
    /\ analysisLocals = [period |-> "none"]
    /\ analysisData = Null
    /\ analysisError = Null
    /\ filteredTodosForAnalysis = <<>>
    /\ analysisCalls = <<>>
    /\ analysisToast = "none"

\* A row of the todos table: its id, its owner and its completed flag (the
\* other columns are carried along unread).
Row(id, user, completed) ==
    [id |-> id, user_id |-> user, completed |-> completed]

Owners == {"u1", "u2"}

\* The user who opens the page.
Visitors == {"u1"}

\* The table when the page is opened: a task of another owner.
SeededStore == [rows |-> {Row(1, "u2", FALSE)}, nextId |-> 2]

NoCall == [handler |-> "none"]

\* Nothing has been sent to the store yet.
StoreAt(user, loading) ==
    /\ currentUser = user
    /\ isLoading = loading
    /\ editingTodo = Null
    /\ formCompleted = FALSE
    /\ store = SeededStore
    /\ calls = [i \in 1..MaxCalls |-> NoCall]
    /\ errorToasted = FALSE

\* The page as constructed, and the page of a signed-in user.
StoreIdle == StoreAt(Null, TRUE)
StoreLoaded == \E user \in Visitors : StoreAt(Some(user), FALSE)

\* The form as constructed without a todo.
FormIdle ==
    /\ formTitle = <<>>
    /\ formDescription = <<>>
    /\ formDueDate = <<>>
    /\ formPriority = "none"
    /\ formCategories = <<>>
    /\ aiInput = <<>>
    /\ isGenerating = FALSE
    /\ aiCall = Null
    /\ aiData = Null
    /\ aiToast = "none"

InitPage(lists) ==
    /\ todos \in lists
    /\ searchQuery = <<>>
    /\ statusFilter = "all"
    /\ priorityFilter = "all"
    /\ sortBy = "created"
    /\ sortOrder = "desc"
    /\ AnalysisIdle
    /\ StoreLoaded
    /\ FormIdle

\* No request is being served.
ApiIdle ==
    /\ apiKey = TRUE
    /\ nodeEnv = "production"
    /\ now = 0
    /\ pc = "idle"
    /\ request = [endpoint |-> "none"]
    /\ locals = [endpoint |-> "none"]
    /\ remoteCalls = <<>>
    /\ remote = [kind |-> "none"]
    /\ response = [status |-> 0]

SetSearchQuery ==
    \E q \in SearchTexts :
        /\ searchQuery' = q
        /\ UNCHANGED <<todos, statusFilter, priorityFilter, sortBy, sortOrder>>
        /\ UNCHANGED <<clientVars, apiVars>>

SetStatusFilter ==
    \E st \in StatusFilters :
        /\ statusFilter' = st
        /\ UNCHANGED <<todos, searchQuery, priorityFilter, sortBy, sortOrder>>
        /\ UNCHANGED <<clientVars, apiVars>>

SetPriorityFilter ==
    \E pf \in PriorityFilters :
        /\ priorityFilter' = pf
        /\ UNCHANGED <<todos, searchQuery, statusFilter, sortBy, sortOrder>>
        /\ UNCHANGED <<clientVars, apiVars>>

SetSortBy ==
    \E sb \in SortKeys :
        /\ sortBy' = sb
        /\ UNCHANGED <<todos, searchQuery, statusFilter, priorityFilter, sortOrder>>
        /\ UNCHANGED <<clientVars, apiVars>>

SetSortOrder ==
    \E so \in SortOrders :
        /\ sortOrder' = so
        /\ UNCHANGED <<todos, searchQuery, statusFilter, priorityFilter, sortBy>>
        /\ UNCHANGED <<clientVars, apiVars>>

\* The sort controls alone, on task sets that differ in every sort key; a
\* task has a due timestamp or a priority, not both.
SortFields ==
    {f \in [title : Titles,
            completed : {FALSE},
            due_date : {Null} \cup {Some(d) : d \in DueStamps},
            priority : {Null} \cup {Some(p) : p \in Priority},
            created_date : CreatedStamps] :
        f.due_date = Null \/ f.priority = Null}

\* The filter controls too, on task sets that differ in what the filters read.
FilterFields ==
    {f \in [title : Titles,
            completed : BOOLEAN,
            due_date : {Null, Some(1)},
            priority : {Null, Some("high")},
            created_date : {1}] : f.completed => f.due_date = Null}

InitSort ==
    /\ InitPage(StoreLists(SortFields))
    /\ ApiIdle

NextSort ==
    \/ SetSortBy
    \/ SetSortOrder

SpecSort == InitSort /\ [][NextSort]_vars

NextFilter ==
    \/ SetSearchQuery
    \/ SetStatusFilter
    \/ SetPriorityFilter
    \/ SetSortBy
    \/ SetSortOrder

InitFilter ==
    /\ InitPage(StoreLists(FilterFields))
    /\ ApiIdle

SpecFilter == InitFilter /\ [][NextFilter]_vars

-----------------------------------------------------------------------------
(* Time: a timestamp is a number of hours since 1970-01-01T00:00 (a        *)
(* Thursday) in the zone of the server, which has no daylight saving.      *)

HoursPerDay == 24

\* Days since 1970-01-01 of the civil date y-m-d (proleptic Gregorian).
DaysFromCivil(y, m, d) ==
    LET yy == IF m <= 2 THEN y - 1 ELSE y
        era == yy \div 400
        yoe == yy - era * 400
        mp == IF m > 2 THEN m - 3 ELSE m + 9
        doy == (153 * mp + 2) \div 5 + d - 1
        doe == yoe * 365 + yoe \div 4 - yoe \div 100 + doy
    IN  era * 146097 + doe - 719468

\* The timestamp of y-m-d at hour h.
At(y, m, d, h) == DaysFromCivil(y, m, d) * HoursPerDay + h

\* Date.prototype.getDay (0 = Sunday), getHours, setHours(0, 0, 0, 0).
GetDay(t) == ((t \div HoursPerDay) + 4) % 7
GetHours(t) == t % HoursPerDay
AtMidnight(t) == t - (t % HoursPerDay)

\* Math.floor(a / b) for b > 0.
FloorDiv(a, b) == IF a >= 0 THEN a \div b ELSE 0 - ((b - 1 - a) \div b)

-----------------------------------------------------------------------------
(* Text of dates: "YYYY-MM-DD" and "THH:MM:SS" *)

Digits == <<"0", "1", "2", "3", "4", "5", "6", "7", "8", "9">>

IsDigit(c) == \E i \in 1..10 : Digits[i] = c

DigitValue(c) == (CHOOSE i \in 1..10 : Digits[i] = c) - 1

\* The decimal text of n, zero-padded to w characters.
RECURSIVE Pad(_, _)
Pad(n, w) ==
    IF w = 0 THEN <<>> ELSE Append(Pad(n \div 10, w - 1), Digits[(n % 10) + 1])

DateText(y, m, d) == Pad(y, 4) \o <<"-">> \o Pad(m, 2) \o <<"-">> \o Pad(d, 2)
TimeText(h, mi, sec) ==
    <<"T">> \o Pad(h, 2) \o <<":">> \o Pad(mi, 2) \o <<":">> \o Pad(sec, 2)

\* The number written by the digits of s.
RECURSIVE ParseInt(_)
ParseInt(s) ==
    IF s = <<>> THEN 0
    ELSE ParseInt(SubSeq(s, 1, Len(s) - 1)) * 10 + DigitValue(s[Len(s)])

AllDigits(s, from, to) == \A i \in from..to : IsDigit(s[i])

\* /^(\d{4}-\d{2}-\d{2})(T\d{2}:\d{2}:\d{2})?/ : the groups [1] and [2] of the
\* match, or no match. The pattern is anchored at the start only.
DatePrefixMatches(s) ==
    /\ Len(s) >= 10
    /\ AllDigits(s, 1, 4) /\ s[5] = "-"
    /\ AllDigits(s, 6, 7) /\ s[8] = "-"
    /\ AllDigits(s, 9, 10)

TimeGroupMatches(s) ==
    /\ Len(s) >= 19
    /\ s[11] = "T"
    /\ AllDigits(s, 12, 13) /\ s[14] = ":"
    /\ AllDigits(s, 15, 16) /\ s[17] = ":"
    /\ AllDigits(s, 18, 19)

DateMatch(s) ==
    IF DatePrefixMatches(s)
    THEN [matched |-> TRUE,
          dateOnly |-> SubSeq(s, 1, 10),
          timePart |-> IF TimeGroupMatches(s) THEN Some(SubSeq(s, 11, 19)) ELSE Null]
    ELSE [matched |-> FALSE, dateOnly |-> <<>>, timePart |-> Null]

\* new Date("YYYY-MM-DDTHH:MM:SS") read as local time: the timestamp, or
\* null for NaN (an Invalid Date) when a field is out of its range. A day
\* past the end of its month rolls over into the next month, and 24:00:00 is
\* the midnight that ends the day.
ParseLocalDateTime(dateOnly, timePart) ==
    LET y == ParseInt(SubSeq(dateOnly, 1, 4))
        m == ParseInt(SubSeq(dateOnly, 6, 7))
        d == ParseInt(SubSeq(dateOnly, 9, 10))
        h == ParseInt(SubSeq(timePart, 2, 3))
        mi == ParseInt(SubSeq(timePart, 5, 6))
        sec == ParseInt(SubSeq(timePart, 8, 9))
    IN  IF /\ m \in 1..12
           /\ d \in 1..31
           /\ \/ h \in 0..23 /\ mi \in 0..59 /\ sec \in 0..59
              \/ h = 24 /\ mi = 0 /\ sec = 0
        THEN Some(At(y, m, d, h))
        ELSE Null

-----------------------------------------------------------------------------
(* Error classification shared by the catch blocks of both endpoints.      *)
(* An error message is a sequence of words; includes() looks for the words *)
(* of the needle side by side.                                             *)

QuotaNeedles ==
    {<<"quota">>, <<"Quota", "exceeded">>,
     <<"exceeded", "your", "current", "quota">>, <<"429">>, <<"rate", "limit">>}
InputNeedles ==
    {<<"invalid">>, <<"validation">>, <<"bad", "request">>, <<"400">>}
AuthNeedles ==
    {<<"unauthorized">>, <<"authentication">>, <<"API", "key">>, <<"401">>}

IncludesAny(message, needles) == \E n \in needles : Includes(message, n)

\* A thrown value: an object with a string `message`, or anything else.
HasMessage(err) == err.hasMessage

\* The fixed texts of the error responses.
MsgKeyNotSet == <<"KEY_NOT_SET">>
MsgCannotParse == <<"CANNOT_PARSE_BODY">>
MsgQuota == <<"QUOTA_EXCEEDED_RETRY_LATER">>
MsgQuotaGenerate == <<"QUOTA_EXCEEDED_RETRY_LATER_SEE_AI_STUDIO">>
MsgBadInput == <<"INPUT_NOT_VALID">>
MsgAuthFailed == <<"API_AUTH_FAILED">>
MsgGenerateFailed == <<"GENERATE_FAILED">>
MsgGenerateRetry == <<"GENERATE_FAILED_RETRY_LATER">>
MsgAnalyzeFailed == <<"ANALYZE_FAILED">>
MsgAnalyzeRetry == <<"ANALYZE_FAILED_RETRY_LATER">>
MsgMustBeString == <<"INPUT_MUST_BE_STRING">>
MsgEmptyInput == <<"ENTER_A_TODO">>
MsgTooShort == <<"AT_LEAST_2_CHARACTERS">>
MsgTooLong(n) == <<"AT_MOST_500_CHARACTERS_NOW">> \o Pad(n, 3)
MsgTodosNotArray == <<"TODOS_NOT_VALID">>
MsgBadPeriod == <<"PERIOD_MUST_BE_TODAY_OR_WEEK">>

ErrorResponse(status, message) ==
    [status |-> status, error |-> message]

\* A catch block that looks for the input words before the quota words.
GenerateCatchInputFirst(err, env) ==
    IF HasMessage(err) /\ IncludesAny(err.message, InputNeedles)
    THEN ErrorResponse(400, MsgBadInput)
    ELSE IF HasMessage(err) /\ IncludesAny(err.message, QuotaNeedles)
    THEN ErrorResponse(429, MsgQuotaGenerate)
    ELSE ErrorResponse(500, MsgGenerateFailed)

\* catch (error) of generate-todo.
GenerateCatch(err, env) ==
    IF HasMessage(err) /\ IncludesAny(err.message, QuotaNeedles)
    THEN ErrorResponse(429, MsgQuotaGenerate)
    ELSE IF HasMessage(err) /\ IncludesAny(err.message, InputNeedles)
    THEN ErrorResponse(400, MsgBadInput)
    ELSE IF HasMessage(err) /\ IncludesAny(err.message, AuthNeedles)
    THEN ErrorResponse(500, MsgAuthFailed)
    ELSE IF HasMessage(err)
    THEN ErrorResponse(500, IF env = "development" THEN err.message
                            ELSE MsgGenerateRetry)
    ELSE ErrorResponse(500, MsgGenerateFailed)

\* A catch block that hands out the raw message in every mode.
AnalyzeCatchRawInEveryMode(err, env) ==
    IF HasMessage(err) /\ IncludesAny(err.message, QuotaNeedles)
    THEN ErrorResponse(429, MsgQuota)
    ELSE IF HasMessage(err) /\ IncludesAny(err.message, InputNeedles)
    THEN ErrorResponse(400, MsgBadInput)
    ELSE IF HasMessage(err)
    THEN ErrorResponse(500, err.message)
    ELSE ErrorResponse(500, MsgAnalyzeFailed)

\* catch (error) of analyze-todos.
AnalyzeCatch(err, env) ==
    IF HasMessage(err) /\ IncludesAny(err.message, QuotaNeedles)
    THEN ErrorResponse(429, MsgQuota)
    ELSE IF HasMessage(err) /\ IncludesAny(err.message, InputNeedles)
    THEN ErrorResponse(400, MsgBadInput)
    ELSE IF HasMessage(err)
    THEN ErrorResponse(500, IF env = "development" THEN err.message
                            ELSE MsgAnalyzeRetry)
    ELSE ErrorResponse(500, MsgAnalyzeFailed)

\* The TypeError of `const { input } = body` (`const { todos, period } = body`)
\* when the body is the JSON value null.
DestructureError ==
    [hasMessage |-> TRUE, message |-> <<"Cannot", "destructure", "property">>]

-----------------------------------------------------------------------------
(* Extraction endpoint: POST /api/ai/generate-todo *)

MinInputLength == 2
MaxInputLength == 500
TitleFromInput == 100
ShortTitleFromInput == 50
MaxTitleLength == 200
TruncatedTitleLength == 197

Ellipsis == <<".", ".", ".">>
\* The three-character placeholder title ("hal il", a "task").
PlaceholderTitle == <<"H", " ", "I">>
DefaultTime == TimeText(9, 0, 0)
\* The default category list: the one label "personal".
DefaultCategory == <<"personal">>

\* String.prototype.slice(0, n).
Slice(s, n) == SubSeq(s, 1, IF Len(s) < n THEN Len(s) ELSE n)

\* replace(/\s+/g, " "): every run of whitespace becomes one space.
CollapseWhitespace(s) ==
    LET marked == [i \in 1..Len(s) |->
                      [c |-> s[i],
                       inRun |-> i > 1 /\ IsWhitespace(s[i]) /\ IsWhitespace(s[i - 1])]]
        kept == SelectSeq(marked, LAMBDA m : ~m.inRun)
    IN  [i \in 1..Len(kept) |-> IF IsWhitespace(kept[i].c) THEN " " ELSE kept[i].c]

\* A normalisation that only trims.
NormalizeInputTrimOnly(input) == Trim(input)

NormalizeInput(input) == CollapseWhitespace(Trim(input))

\* A title that is cut before it is trimmed.
PostProcessTitleCutFirst(generatedTitle, processedInput) ==
    LET t0 == IF generatedTitle # <<>> THEN generatedTitle
              ELSE Slice(processedInput, TitleFromInput)
        t1 == IF Len(t0) > MaxTitleLength
              THEN Slice(t0, TruncatedTitleLength) \o Ellipsis
              ELSE t0
    IN  IF Len(Trim(t1)) < MinInputLength
        THEN Trim(Slice(processedInput, ShortTitleFromInput))
        ELSE Trim(t1)

\* The title of the response.
PostProcessTitle(generatedTitle, processedInput) ==
    LET t0 == IF generatedTitle # <<>> THEN generatedTitle
              ELSE Slice(processedInput, TitleFromInput)
        t1 == Trim(t0)
        t2 == IF Len(t1) < MinInputLength
              THEN (IF Trim(Slice(processedInput, ShortTitleFromInput)) # <<>>
                    THEN Trim(Slice(processedInput, ShortTitleFromInput))
                    ELSE PlaceholderTitle)
              ELSE t1
    IN  IF Len(t2) > MaxTitleLength
        THEN Slice(t2, TruncatedTitleLength) \o Ellipsis
        ELSE t2

\* The due_date of the response (dueDateFormatted).
PostProcessDueDate(generatedDue, koreaTime) ==
    IF generatedDue = Null \/ generatedDue[1] = <<>> THEN Null
    ELSE LET m == DateMatch(generatedDue[1])
         IN  IF ~m.matched THEN Null
             ELSE LET dueDate == ParseLocalDateTime(
                                     m.dateOnly,
                                     IF m.timePart # Null THEN m.timePart[1]
                                     ELSE DefaultTime)
                      currentDate == AtMidnight(koreaTime)
                      \* NaN < -1 is false
                      tooOld == /\ dueDate # Null
                                /\ FloorDiv(AtMidnight(dueDate[1]) - currentDate,
                                            HoursPerDay) < -1
                  IN  IF tooOld THEN Null
                      ELSE IF m.timePart # Null THEN Some(generatedDue[1])
                      ELSE Some(m.dateOnly \o DefaultTime)

\* A response that keeps an empty category list.
GenerateResponseDataKeepingEmpty(generated, processedInput, koreaTime) ==
    [status |-> 200,
     title |-> PostProcessTitle(generated.title, processedInput),
     description |-> Null,
     due_date |-> PostProcessDueDate(generated.due_date, koreaTime),
     priority |-> IF generated.priority # Null THEN generated.priority[1]
                  ELSE "medium",
     category |-> IF generated.category # Null THEN generated.category[1]
                  ELSE DefaultCategory]

GenerateResponseData(generated, processedInput, koreaTime) ==
    [status |-> 200,
     title |-> PostProcessTitle(generated.title, processedInput),
     description |-> IF generated.description # Null
                        /\ Trim(generated.description[1]) # <<>>
                     THEN Some(Trim(generated.description[1]))
                     ELSE Null,
     due_date |-> PostProcessDueDate(generated.due_date, koreaTime),
     priority |-> IF generated.priority # Null THEN generated.priority[1]
                  ELSE "medium",
     category |-> IF generated.category # Null /\ Len(generated.category[1]) > 0
                  THEN generated.category[1]
                  ELSE DefaultCategory]

\* The handler up to its first return or to the call of generateObject.
\* A body is [kind: "unparseable" | "null" | "object", input: [isString, text]].
GenerateValidation(body) ==
    IF ~apiKey THEN ErrorResponse(500, MsgKeyNotSet)
    ELSE IF body.kind = "unparseable" THEN ErrorResponse(400, MsgCannotParse)
    ELSE IF body.kind = "null" THEN GenerateCatch(DestructureError, nodeEnv)
    ELSE IF ~body.input.isString \/ body.input.text = <<>>
    THEN ErrorResponse(400, MsgMustBeString)
    ELSE LET normalizedInput == NormalizeInput(body.input.text)
         IN  IF Len(normalizedInput) = 0 THEN ErrorResponse(400, MsgEmptyInput)
             ELSE IF Len(normalizedInput) < MinInputLength
             THEN ErrorResponse(400, MsgTooShort)
             ELSE IF Len(normalizedInput) > MaxInputLength
             THEN ErrorResponse(400, MsgTooLong(Len(normalizedInput)))
             ELSE [status |-> 0, processedInput |-> normalizedInput]

GeneratePOST(bodies) ==
    \E body \in bodies :
        LET v == GenerateValidation(body)
        IN  /\ pc = "idle"
            /\ request' = [endpoint |-> "generate", body |-> body]
            /\ IF v.status # 0
               THEN /\ pc' = "responded"
                    /\ response' = v
                    /\ UNCHANGED <<locals, remoteCalls>>
               ELSE /\ pc' = "awaiting"
                    /\ locals' = [endpoint |-> "generate",
                                  processedInput |-> v.processedInput,
                                  koreaTime |-> now]
                    /\ remoteCalls' = Append(remoteCalls,
                                             [endpoint |-> "generate",
                                              input |-> v.processedInput])
                    /\ UNCHANGED response
            /\ UNCHANGED <<apiKey, nodeEnv, now, remote>>
            /\ UNCHANGED <<pageVars, clientVars>>

\* generateObject resolves with an object of TodoGenerateSchema.
GenerateRemoteReturns(results) ==
    \E generated \in results :
        /\ pc = "awaiting"
        /\ request.endpoint = "generate"
        /\ pc' = "responded"
        /\ remote' = [kind |-> "resolved", object |-> generated]
        /\ response' = GenerateResponseData(generated, locals.processedInput,
                                            locals.koreaTime)
        /\ UNCHANGED <<apiKey, nodeEnv, now, request, locals, remoteCalls>>
        /\ UNCHANGED <<pageVars, clientVars>>

\* generateObject rejects.
GenerateRemoteThrows(errors) ==
    \E err \in errors :
        /\ pc = "awaiting"
        /\ request.endpoint = "generate"
        /\ pc' = "responded"
        /\ remote' = [kind |-> "rejected", error |-> err]
        /\ response' = GenerateCatch(err, nodeEnv)
        /\ UNCHANGED <<apiKey, nodeEnv, now, request, locals, remoteCalls>>
        /\ UNCHANGED <<pageVars, clientVars>>

-----------------------------------------------------------------------------
(* Analysis endpoint: POST /api/ai/analyze-todos -- the aggregator *)

MaxUrgentTasks == 5

Count(s, Test(_)) == Len(SelectSeq(s, Test))

\* A rate cut down to whole percents.
RateTruncated(completed, total) ==
    IF total > 0 THEN [num |-> (completed * 100) \div total, den |-> 1]
    ELSE [num |-> 0, den |-> 1]

\* completed / total * 100, or 0 when total is 0, as an exact fraction.
Rate(completed, total) ==
    IF total > 0 THEN [num |-> completed * 100, den |-> total]
    ELSE [num |-> 0, den |-> 1]

HasCategoryArray(todo) == todo.category # Null

PriorityStat(ts, p) ==
    [total |-> Count(ts, LAMBDA t : t.priority = p),
     completed |-> Count(ts, LAMBDA t : t.priority = p /\ t.completed)]

\* Priority statistics that leave the tasks without priority out.
priorityStatsOfSetOnly(ts) ==
    [high |-> PriorityStat(ts, Some("high")),
     medium |-> PriorityStat(ts, Some("medium")),
     low |-> PriorityStat(ts, Some("low")),
     none |-> [total |-> 0, completed |-> 0]]

priorityStats(ts) ==
    [high |-> PriorityStat(ts, Some("high")),
     medium |-> PriorityStat(ts, Some("medium")),
     low |-> PriorityStat(ts, Some("low")),
     none |-> PriorityStat(ts, Null)]

\* A Record<string, ...> is the sequence of its entries in insertion order.
IndexOfKey(entries, key) ==
    IF \E i \in 1..Len(entries) : entries[i].key = key
    THEN CHOOSE i \in 1..Len(entries) : entries[i].key = key
    ELSE 0

\* categoryStats[cat].total++, and .completed++ for a completed task.
BumpCategory(entries, cat, completed) ==
    LET i == IndexOfKey(entries, cat)
        added == IF completed THEN 1 ELSE 0
    IN  IF i = 0
        THEN Append(entries, [key |-> cat, total |-> 1, completed |-> added])
        ELSE [entries EXCEPT ![i] = [key |-> cat,
                                     total |-> @.total + 1,
                                     completed |-> @.completed + added]]

RECURSIVE BumpCategories(_, _, _)
BumpCategories(entries, cats, completed) ==
    IF cats = <<>> THEN entries
    ELSE BumpCategories(BumpCategory(entries, Head(cats), completed),
                        Tail(cats), completed)

RECURSIVE CategoryStatsFrom(_, _)
CategoryStatsFrom(entries, ts) ==
    IF ts = <<>> THEN entries
    ELSE CategoryStatsFrom(
             IF HasCategoryArray(Head(ts))
             THEN BumpCategories(entries, Head(ts).category[1], Head(ts).completed)
             ELSE entries,
             Tail(ts))

categoryStats(ts) == CategoryStatsFrom(<<>>, ts)

\* count[cat] = (count[cat] || 0) + 1
BumpCount(entries, cat) ==
    LET i == IndexOfKey(entries, cat)
    IN  IF i = 0 THEN Append(entries, [key |-> cat, count |-> 1])
        ELSE [entries EXCEPT ![i] = [key |-> cat, count |-> @.count + 1]]

RECURSIVE BumpCounts(_, _)
BumpCounts(entries, cats) ==
    IF cats = <<>> THEN entries
    ELSE BumpCounts(BumpCount(entries, Head(cats)), Tail(cats))

RECURSIVE CategoryCountFrom(_, _)
CategoryCountFrom(entries, ts) ==
    IF ts = <<>> THEN entries
    ELSE CategoryCountFrom(
             IF HasCategoryArray(Head(ts))
             THEN BumpCounts(entries, Head(ts).category[1])
             ELSE entries,
             Tail(ts))

PriorityCount(ts) ==
    [high |-> Count(ts, LAMBDA t : t.priority = Some("high")),
     medium |-> Count(ts, LAMBDA t : t.priority = Some("medium")),
     low |-> Count(ts, LAMBDA t : t.priority = Some("low")),
     none |-> Count(ts, LAMBDA t : t.priority = Null)]

todosWithDueDate(ts) == SelectSeq(ts, LAMBDA t : t.due_date # Null)

overdueTodos(ts, koreaTime) ==
    SelectSeq(todosWithDueDate(ts),
              LAMBDA t : ~t.completed /\ t.due_date[1] < koreaTime)

\* A completed-on-time set that does not ask for completion.
completedOnTimeOrOpen(ts) ==
    SelectSeq(todosWithDueDate(ts), LAMBDA t : t.created_date <= t.due_date[1])

completedOnTime(ts) ==
    SelectSeq(todosWithDueDate(ts),
              LAMBDA t : t.completed /\ t.created_date <= t.due_date[1])

\* The bucket of timeDistribution for a due hour.
DueSlot(hour) ==
    IF hour >= 6 /\ hour < 12 THEN "morning"
    ELSE IF hour >= 12 /\ hour < 18 THEN "afternoon"
    ELSE IF hour >= 18 /\ hour < 22 THEN "evening"
    ELSE "other"

timeDistribution(ts) ==
    LET open == SelectSeq(ts, LAMBDA t : t.due_date # Null /\ ~t.completed)
        In(slot) == Count(open, LAMBDA t : DueSlot(GetHours(t.due_date[1])) = slot)
    IN  [morning |-> In("morning"), afternoon |-> In("afternoon"),
         evening |-> In("evening"), other |-> In("other")]

\* dayNames: Sunday first.
dayNames == <<"Sun", "Mon", "Tue", "Wed", "Thu", "Fri", "Sat">>

dayOfWeekStats(ts) ==
    [i \in 1..Len(dayNames) |->
        [key |-> dayNames[i],
         created |-> Count(ts, LAMBDA t : GetDay(t.created_date) + 1 = i),
         completed |-> Count(ts, LAMBDA t : GetDay(t.created_date) + 1 = i
                                             /\ t.completed)]]

\* The slots of hourStats, in the order of the object literal.
timeSlots == <<"dawn", "morning", "afternoon", "evening">>

CreatedSlot(hour) ==
    IF hour >= 0 /\ hour < 6 THEN "dawn"
    ELSE IF hour >= 6 /\ hour < 12 THEN "morning"
    ELSE IF hour >= 12 /\ hour < 18 THEN "afternoon"
    ELSE "evening"

hourStats(ts) ==
    [i \in 1..Len(timeSlots) |->
        [key |-> timeSlots[i],
         created |-> Count(ts, LAMBDA t :
                         CreatedSlot(GetHours(t.created_date)) = timeSlots[i]),
         completed |-> Count(ts, LAMBDA t :
                         CreatedSlot(GetHours(t.created_date)) = timeSlots[i]
                         /\ t.completed)]]

\* The comparators given to sort(): bRate - aRate, and b[1] - a[1].
RateOf(e) == Rate(e.completed, e.created)

EntryCompare(a, b, by) ==
    IF by = "rate"
    THEN RateOf(b).num * RateOf(a).den - RateOf(a).num * RateOf(b).den
    ELSE b.count - a.count

RECURSIVE InsertEntry(_, _, _)
InsertEntry(sorted, x, by) ==
    IF sorted = <<>> THEN <<x>>
    ELSE IF EntryCompare(sorted[Len(sorted)], x, by) > 0
         THEN Append(InsertEntry(SubSeq(sorted, 1, Len(sorted) - 1), x, by),
                     sorted[Len(sorted)])
         ELSE Append(sorted, x)

RECURSIVE SortEntries(_, _)
SortEntries(s, by) ==
    IF s = <<>> THEN <<>>
    ELSE InsertEntry(SortEntries(SubSeq(s, 1, Len(s) - 1), by), s[Len(s)], by)

\* Object.entries(stats).sort(...)[0]
MostProductive(stats) == SortEntries(stats, "rate")[1]

\* Object.entries(count).sort(...)[0], undefined (null) for an empty record.
MostCounted(entries) ==
    IF entries = <<>> THEN Null ELSE Some(SortEntries(entries, "count")[1])

\* A filter that lets a task due one day later through.
IsUrgentWithinThreeDays(todo, koreaTime) ==
    IF todo.completed THEN FALSE
    ELSE IF todo.priority = Some("high") THEN TRUE
    ELSE IF todo.due_date # Null
    THEN FloorDiv(todo.due_date[1] - koreaTime, HoursPerDay) <= 2
    ELSE FALSE

\* The filter of urgentTasks.
IsUrgent(todo, koreaTime) ==
    IF todo.completed THEN FALSE
    ELSE IF todo.priority = Some("high") THEN TRUE
    ELSE IF todo.due_date # Null
    THEN FloorDiv(todo.due_date[1] - koreaTime, HoursPerDay) <= 1
    ELSE FALSE

urgentTasks(ts, koreaTime) ==
    LET urgent == SelectSeq(ts, LAMBDA t : IsUrgent(t, koreaTime))
        titles == [i \in 1..Len(urgent) |-> urgent[i].title]
    IN  Slice(titles, MaxUrgentTasks)

\* Everything the handler computes between its validation and the remote call.
Statistics(ts, koreaTime) ==
    LET done == SelectSeq(ts, LAMBDA t : t.completed)
        withDue == todosWithDueDate(ts)
        overdue == overdueTodos(ts, koreaTime)
        onTime == completedOnTime(ts)
        byDay == dayOfWeekStats(ts)
        byHour == hourStats(ts)
        postponed == CategoryCountFrom(<<>>, overdue)
        finished == CategoryCountFrom(<<>>, done)
    IN  [endpoint |-> "analyze",
         totalTodos |-> Len(ts),
         completedTodos |-> Len(done),
         completionRate |-> Rate(Len(done), Len(ts)),
         priorityStats |-> priorityStats(ts),
         categoryStats |-> categoryStats(ts),
         todosWithDueDate |-> withDue,
         overdueTodos |-> overdue,
         completedOnTime |-> onTime,
         deadlineComplianceRate |-> Rate(Len(onTime), Len(withDue)),
         timeDistribution |-> timeDistribution(ts),
         dayOfWeekStats |-> byDay,
         hourStats |-> byHour,
         postponedCategoryCount |-> postponed,
         postponedPriorityCount |-> PriorityCount(overdue),
         completedCategoryCount |-> finished,
         completedPriorityCount |-> PriorityCount(done),
         urgentTasks |-> urgentTasks(ts, koreaTime),
         mostProductiveDay |-> MostProductive(byDay),
         mostProductiveTime |-> MostProductive(byHour),
         mostPostponedCategory |-> MostCounted(postponed),
         mostCompletedCategory |-> MostCounted(finished)]

\* The lines of the prompt that name the most productive day and time slot:
\* written only when the selected bucket has a created task.
ProductiveLine(selected) ==
    IF selected.created > 0 THEN Some(selected.key) ELSE Null

\* The response for an empty task list.
EmptyStateResponse(period) ==
    [status |-> 200,
     summary |-> IF period = "today" THEN <<"NO_TODOS_TODAY">>
                 ELSE <<"NO_TODOS_THIS_WEEK">>,
     urgentTasks |-> <<>>,
     insights |-> << <<"ADD_A_TODO_TO_START">> >>,
     recommendations |-> <<>>]

\* A handler without the return for an empty task list.
AnalyzeValidationWithoutEmptyReturn(body) ==
    IF ~apiKey THEN ErrorResponse(500, MsgKeyNotSet)
    ELSE IF body.kind = "unparseable" THEN ErrorResponse(400, MsgCannotParse)
    ELSE IF body.kind = "null" THEN AnalyzeCatch(DestructureError, nodeEnv)
    ELSE IF ~body.todos.isArray THEN ErrorResponse(400, MsgTodosNotArray)
    ELSE IF body.period # "today" /\ body.period # "week"
    THEN ErrorResponse(400, MsgBadPeriod)
    ELSE [status |-> 0]

\* The handler up to its first return or to the call of generateObject.
\* A body is [kind, todos: [isArray, items], period].
AnalyzeValidation(body) ==
    IF ~apiKey THEN ErrorResponse(500, MsgKeyNotSet)
    ELSE IF body.kind = "unparseable" THEN ErrorResponse(400, MsgCannotParse)
    ELSE IF body.kind = "null" THEN AnalyzeCatch(DestructureError, nodeEnv)
    ELSE IF ~body.todos.isArray THEN ErrorResponse(400, MsgTodosNotArray)
    ELSE IF body.period # "today" /\ body.period # "week"
    THEN ErrorResponse(400, MsgBadPeriod)
    ELSE IF Len(body.todos.items) = 0 THEN EmptyStateResponse(body.period)
    ELSE [status |-> 0]

AnalyzePOST(bodies) ==
    \E body \in bodies :
        LET v == AnalyzeValidation(body)
        IN  /\ pc = "idle"
            /\ request' = [endpoint |-> "analyze", body |-> body]
            /\ IF v.status # 0
               THEN /\ pc' = "responded"
                    /\ response' = v
                    /\ UNCHANGED <<locals, remoteCalls>>
               ELSE /\ pc' = "awaiting"
                    /\ locals' = Statistics(body.todos.items, now)
                    /\ remoteCalls' =
                          Append(remoteCalls,
                                 [endpoint |-> "analyze",
                                  period |-> body.period,
                                  mostProductiveDay |->
                                      ProductiveLine(locals'.mostProductiveDay),
                                  mostProductiveTime |->
                                      ProductiveLine(locals'.mostProductiveTime)])
                    /\ UNCHANGED response
            /\ UNCHANGED <<apiKey, nodeEnv, now, remote>>
            /\ UNCHANGED <<pageVars, clientVars>>

\* generateObject resolves with an object of TodoAnalysisSchema.
AnalyzeRemoteReturns(results) ==
    \E resultObject \in results :
        /\ pc = "awaiting"
        /\ request.endpoint = "analyze"
        /\ pc' = "responded"
        /\ remote' = [kind |-> "resolved", object |-> resultObject]
        /\ response' = [status |-> 200,
                        summary |-> resultObject.summary,
                        urgentTasks |-> resultObject.urgentTasks,
                        insights |-> resultObject.insights,
                        recommendations |-> resultObject.recommendations]
        /\ UNCHANGED <<apiKey, nodeEnv, now, request, locals, remoteCalls>>
        /\ UNCHANGED <<pageVars, clientVars>>

\* generateObject rejects.
AnalyzeRemoteThrows(errors) ==
    \E err \in errors :
        /\ pc = "awaiting"
        /\ request.endpoint = "analyze"
        /\ pc' = "responded"
        /\ remote' = [kind |-> "rejected", error |-> err]
        /\ response' = AnalyzeCatch(err, nodeEnv)
        /\ UNCHANGED <<apiKey, nodeEnv, now, request, locals, remoteCalls>>
        /\ UNCHANGED <<pageVars, clientVars>>

-----------------------------------------------------------------------------
(* The requests, remote results and remote failures the endpoints are given *)

Repeat(c, n) == [i \in 1..n |-> c]

SeqsUpTo(S, n) == UNION {[1..k -> S] : k \in 0..n}

Environments == {"development", "production", "test"}

InitApi(nows, envs) ==
    /\ apiKey \in BOOLEAN
    /\ nodeEnv \in envs
    /\ now \in nows
    /\ pc = "idle"
    /\ request = [endpoint |-> "none"]
    /\ locals = [endpoint |-> "none"]
    /\ remoteCalls = <<>>
    /\ remote = [kind |-> "none"]
    /\ response = [status |-> 0]

\* The page as constructed, before any task is loaded.
PageIdle ==
    /\ todos = <<>>
    /\ searchQuery = <<>>
    /\ statusFilter = "all"
    /\ priorityFilter = "all"
    /\ sortBy = "created"
    /\ sortOrder = "desc"
    /\ AnalysisIdle
    /\ StoreIdle
    /\ FormIdle

\* ---- remote failures
ErrorWords ==
    {"quota", "Quota", "exceeded", "429", "rate", "limit", "invalid",
     "validation", "bad", "request", "400", "API", "key", "timeout"}

RemoteErrors ==
    {[hasMessage |-> FALSE, message |-> <<>>]}
    \cup {[hasMessage |-> TRUE, message |-> m] : m \in SeqsUpTo(ErrorWords, MaxErrorWords)}

\* ---- extraction requests
UnparseableBody == [kind |-> "unparseable"]
NullBody == [kind |-> "null"]
GenerateBody(isString, text) ==
    [kind |-> "object", input |-> [isString |-> isString, text |-> text]]

InputTexts ==
    {<<>>, <<" ">>, <<"\t", " ">>, <<"a">>, <<" ", "a", " ">>, <<"a", "b">>,
     <<" ", "a", " ", "\t", "b", " ">>,
     Repeat("x", MaxInputLength),
     Repeat("x", MaxInputLength + 1),
     <<" ">> \o Repeat("x", MaxInputLength) \o <<"\t">>,
     Repeat("x", MaxInputLength - 2) \o <<" ", " ", "y">>,
     Repeat("x", MaxInputLength - 1) \o <<" ", " ", "y">>}

GenerateBodies ==
    {UnparseableBody, NullBody, GenerateBody(FALSE, <<>>)}
    \cup {GenerateBody(TRUE, t) : t \in InputTexts}

Generated(title, description, due, priority, category) ==
    [title |-> title, description |-> description, due_date |-> due,
     priority |-> priority, category |-> category]

PlainGenerated == Generated(<<"a", "b">>, Null, Null, Null, Null)

\* ---- extraction: the due_date texts of the remote result
ExtractNows == {At(2025, 1, 1, 0), At(2025, 1, 1, 23)}

NearDays ==
    {DateText(2024, 12, 29), DateText(2024, 12, 30), DateText(2024, 12, 31),
     DateText(2025, 1, 1), DateText(2025, 1, 2)}

AfterDate ==
    {<<>>, TimeText(15, 30, 0), TimeText(0, 0, 0), TimeText(15, 30, 0) \o <<"Z">>,
     <<"x">>, <<"T", "1", "5", ":", "3", "0">>}

DueTexts ==
    {d \o a : d \in NearDays, a \in AfterDate}
    \cup {<<"x">> \o DateText(2025, 1, 2),
          <<"2", "0", "2", "5", "/", "0", "1", "/", "0", "2">>,
          <<"2", "5", "-", "0", "1", "-", "0", "2">>,
          DateText(2024, 13, 1), DateText(2024, 12, 0), DateText(2025, 1, 32),
          DateText(2024, 0, 10),
          DateText(2024, 12, 29) \o TimeText(24, 0, 0),
          DateText(2024, 12, 30) \o TimeText(24, 0, 0),
          DateText(2025, 1, 2) \o TimeText(9, 60, 0)}

GeneratedTitles ==
    {<<>>, <<" ">>, <<"a">>, <<" ", "a", "b", " ">>,
     Repeat("t", MaxTitleLength), Repeat("t", MaxTitleLength + 1),
     <<" ">> \o Repeat("t", MaxTitleLength) \o <<" ">>}

GeneratedCategories ==
    {Null, Some(<<>>), Some(<<"work">>), Some(<<"work", "study">>)}

GeneratedDescriptions == {Null, Some(<<>>), Some(<<" ">>), Some(<<" ", "d", " ">>)}

ExtractResults ==
    {Generated(<<"a", "b">>, Null, Some(d), Null, Null) : d \in DueTexts}
    \cup {Generated(t, Null, Null, Null, Null) : t \in GeneratedTitles}
    \cup {Generated(<<"a", "b">>, d, Some(<<>>), p, c) :
            d \in GeneratedDescriptions,
            p \in {Null} \cup {Some(q) : q \in Priority},
            c \in GeneratedCategories}

\* ---- analysis requests
AnalyzeNows == {At(2025, 1, 1, 10)}

AnalyzeBody(isArray, items, period) ==
    [kind |-> "object", todos |-> [isArray |-> isArray, items |-> items],
     period |-> period]

Periods == {"today", "week"}

\* A task of the request; its title is unique in the request.
Task(i, completed, priority, category, due, created) ==
    [title |-> <<"t", Digits[i + 1]>>, completed |-> completed,
     priority |-> priority, category |-> category, due_date |-> due,
     created_date |-> created]

CategoryLists ==
    {Null, Some(<<"work">>), Some(<<"work", "work">>), Some(<<"home", "work">>)}

\* Tasks that differ in completion and categories.
ByCategory ==
    {[completed |-> c, priority |-> Null, category |-> k, due_date |-> Null,
      created_date |-> At(2025, 1, 1, 9)] : c \in BOOLEAN, k \in CategoryLists}

\* Tasks that differ in completion and in the day and hour of creation.
CreatedStampsAnalyzed ==
    {At(2024, 12, 29, 3), At(2024, 12, 30, 9), At(2024, 12, 30, 14),
     At(2025, 1, 1, 20)}

ByCreated ==
    {[completed |-> c, priority |-> Null, category |-> Null, due_date |-> Null,
      created_date |-> t] : c \in BOOLEAN, t \in CreatedStampsAnalyzed}

\* Tasks that differ in completion, priority and distance of the due time.
DueOffsets == {-30, -1, 0, 23, 24, 25, 47, 48, 72}

ByUrgency ==
    {[completed |-> c, priority |-> p, category |-> Null, due_date |-> d,
      created_date |-> At(2025, 1, 1, 9)] :
        c \in BOOLEAN,
        p \in {Null, Some("high"), Some("low")},
        d \in {Null} \cup {Some(t + o) : t \in AnalyzeNows, o \in DueOffsets}}

\* Tasks that differ in completion and in being due before or after now
\* and before or after their creation.
ByDeadline ==
    {[completed |-> c, priority |-> Null, category |-> Null, due_date |-> d,
      created_date |-> At(2025, 1, 1, 9)] :
        c \in BOOLEAN,
        d \in {Null} \cup {Some(t + o) : t \in AnalyzeNows, o \in {-30, -1, 24}}}

\* Tasks of every priority, due in the evening; the completed ones are of
\* medium or of no priority.
ByPriority ==
    {f \in [completed : BOOLEAN,
            priority : {Null} \cup {Some(q) : q \in Priority},
            category : {Null},
            due_date : {Some(t + 8) : t \in AnalyzeNows},
            created_date : {At(2025, 1, 1, 9)}] :
        f.completed => f.priority \in {Null, Some("medium")}}

Numbered(fs) ==
    [i \in 1..Len(fs) |->
        Task(i, fs[i].completed, fs[i].priority, fs[i].category,
             fs[i].due_date, fs[i].created_date)]

\* Lists longer than the cap of the shortlist, of tasks that are high-priority
\* and either open or completed.
BeyondCap ==
    {[i \in 1..n |-> [completed |-> done[i], priority |-> Some("high"),
                      category |-> Null, due_date |-> Null,
                      created_date |-> At(2025, 1, 1, 9)]] :
        n \in (MaxUrgentTasks + 1)..(MaxUrgentTasks + MaxBeyondCap),
        done \in [1..(MaxUrgentTasks + MaxBeyondCap) -> BOOLEAN]}

AnalyzedLists ==
    {Numbered(fs) :
        fs \in (SeqsUpTo(ByCategory, MaxAnalyzed)
                \cup SeqsUpTo(ByCreated, MaxAnalyzed)
                \cup SeqsUpTo(ByUrgency, 1)
                \cup SeqsUpTo(ByDeadline, MaxAnalyzed)
                \cup SeqsUpTo(ByPriority, MaxAnalyzed)
                \cup BeyondCap)}

AnalyzeBodies ==
    {AnalyzeBody(TRUE, ts, "today") : ts \in AnalyzedLists}
    \cup {AnalyzeBody(TRUE, Numbered(fs), "week") : fs \in SeqsUpTo(ByCreated, 1)}

AnalysisResults ==
    {[summary |-> <<"S">>, urgentTasks |-> <<>>, insights |-> << <<"I">> >>,
      recommendations |-> << <<"R">> >>]}

\* ---- requests that exercise validation, on both endpoints
ApiNows == AnalyzeNows

ApiAnalyzeBodies ==
    {UnparseableBody, NullBody}
    \cup {AnalyzeBody(FALSE, <<>>, p) : p \in Periods \cup {"month", ""}}
    \cup {AnalyzeBody(TRUE, ts, p) :
            ts \in {Numbered(fs) : fs \in SeqsUpTo(
                       {[completed |-> c, priority |-> Null, category |-> Null,
                         due_date |-> Null, created_date |-> At(2025, 1, 1, 9)]
                           : c \in BOOLEAN}, 1)},
            p \in Periods \cup {"month", ""}}

-----------------------------------------------------------------------------
(* Temporal Window Classifier: handleAnalyzeTodos of the main page.        *)
(* A Date is [day, ms]: the day number and the millisecond of the day.     *)

MsPerHour == 60 * 60 * 1000

DateOf(t) == [day |-> t \div HoursPerDay, ms |-> (t % HoursPerDay) * MsPerHour]

\* Date.prototype.setHours(h, m, s, ms), setDate(getDate() + k), getDay().
SetHours(date, h, m, sec, ms) ==
    [date EXCEPT !.ms = ((h * 60 + m) * 60 + sec) * 1000 + ms]
AddDays(date, k) == [date EXCEPT !.day = @ + k]
DayOfWeek(date) == GetDay(date.day * HoursPerDay)

\* a <= b on Dates.
NotAfter(a, b) == a.day < b.day \/ (a.day = b.day /\ a.ms <= b.ms)

TodayWindow(koreaTime) ==
    [start |-> koreaTime, end |-> SetHours(koreaTime, 23, 59, 59, 999)]

\* A week that starts on Sunday: Sunday's window starts the day after.
WeekWindowFromSunday(koreaTime) ==
    LET monday == SetHours(AddDays(koreaTime, 0 - (DayOfWeek(koreaTime) - 1)),
                           0, 0, 0, 0)
    IN  [start |-> monday,
         end |-> SetHours(AddDays(monday, 6), 23, 59, 59, 999)]

WeekWindow(koreaTime) ==
    LET dayOfWeek == DayOfWeek(koreaTime)
        monday == SetHours(
                      AddDays(koreaTime,
                              0 - (IF dayOfWeek = 0 THEN 6 ELSE dayOfWeek - 1)),
                      0, 0, 0, 0)
        sunday == SetHours(AddDays(monday, 6), 23, 59, 59, 999)
    IN  [start |-> monday, end |-> sunday]

Within(t, window) ==
    NotAfter(window.start, DateOf(t)) /\ NotAfter(DateOf(t), window.end)

\* The callback of todos.filter: created in the window, or due in it.
InPeriod(todo, window) ==
    IF todo.due_date # Null
    THEN Within(todo.created_date, window) \/ Within(todo.due_date[1], window)
    ELSE Within(todo.created_date, window)

\* calculateCompletionRate of the main page, as an exact fraction.
calculateCompletionRate(todosList) ==
    IF Len(todosList) = 0 THEN [num |-> 0, den |-> 1]
    ELSE [num |-> Len(SelectSeq(todosList, LAMBDA t : t.completed)) * 100,
          den |-> Len(todosList)]

\* The tabs of the analysis card: setAnalysisPeriod(value).
SetAnalysisPeriod ==
    \E value \in Periods :
        /\ currentUser # Null
        /\ value # analysisPeriod
        /\ analysisPeriod' = value
        /\ UNCHANGED <<pageVars, isAnalyzing, analysisLocals, analysisData,
                       analysisError, filteredTodosForAnalysis, analysisCalls,
                       analysisToast, storeVars, formVars, apiVars>>

\* handleAnalyzeTodos(period) up to the await of its fetch.
AnalyzeTodos(period) ==
    /\ currentUser # Null
    /\ Len(analysisCalls) < MaxAnalyses
    /\ LET koreaTime == SetHours(DateOf(now), 0, 0, 0, 0)
           window == IF period = "today" THEN TodayWindow(koreaTime)
                     ELSE WeekWindow(koreaTime)
           filteredTodos == SelectSeq(todos, LAMBDA t : InPeriod(t, window))
       IN  /\ isAnalyzing' = TRUE
           /\ analysisPeriod' = period
           /\ analysisLocals' = [period |-> period,
                                 koreaTime |-> koreaTime,
                                 window |-> window,
                                 body |-> AnalyzeBody(TRUE, filteredTodos,
                                                      period)]
           /\ analysisCalls' = Append(analysisCalls,
                                      [period |-> period,
                                       filteredTodos |-> filteredTodos])
    /\ UNCHANGED <<pageVars, analysisData, analysisError,
                   filteredTodosForAnalysis, analysisToast, storeVars, formVars,
                   apiVars>>

\* A click on the analyse button of the tab shown (disabled while
\* isAnalyzing).
HandleAnalyzeTodos ==
    /\ ~isAnalyzing
    /\ AnalyzeTodos(analysisPeriod)

\* A click on the retry button of the error alert, which is shown while
\* analysisError is set and is never disabled.
RetryAnalyzeTodos ==
    /\ analysisError # Null
    /\ AnalyzeTodos(analysisPeriod)

\* handleAnalyzeTodos after the await of its fetch: setAnalysisData(data), of
\* which the model keeps what it was computed from, and
\* setFilteredTodosForAnalysis(filteredTodos), or the catch block stores the
\* error; finally setIsAnalyzing(false).
AnalyzeTodosSettles ==
    \E i \in 1..Len(analysisCalls), ok \in BOOLEAN :
        /\ IF ok
           THEN /\ analysisData' = Some([period |-> analysisCalls[i].period,
                                         todos |-> analysisCalls[i].filteredTodos])
                /\ filteredTodosForAnalysis' = analysisCalls[i].filteredTodos
                /\ UNCHANGED analysisError
           ELSE /\ analysisError' = Some(<<"ANALYZE_FAILED">>)
                /\ UNCHANGED <<analysisData, filteredTodosForAnalysis>>
        /\ analysisToast' = IF ok THEN "success" ELSE "error"
        /\ isAnalyzing' = FALSE
        /\ analysisCalls' = SubSeq(analysisCalls, 1, i - 1)
                              \o SubSeq(analysisCalls, i + 1, Len(analysisCalls))
        /\ UNCHANGED <<pageVars, analysisPeriod, analysisLocals, storeVars, formVars,
                       apiVars>>

\* ---- the instants and tasks the classifier is given: the week from Monday
\* 2024-12-30 to Sunday 2025-01-05, and tasks at its edges
WindowNows ==
    {At(2024, 12, 29, 23)}
    \cup {At(2024, 12, 30 + d, h) : d \in 0..6, h \in {0, 23}}
    \cup {At(2025, 1, 6, 0)}

EdgeStamps ==
    {At(2024, 12, 29, 23), At(2024, 12, 30, 0), At(2025, 1, 5, 23),
     At(2025, 1, 6, 0)}

WindowFields ==
    [title : {<<"a">>},
     completed : {FALSE},
     due_date : {Null} \cup {Some(t) : t \in EdgeStamps},
     priority : {Null},
     created_date : EdgeStamps]

\* ---- the tasks of the analysis card: one of today, one of last Monday
CardFields ==
    [title : {<<"a">>},
     completed : BOOLEAN,
     due_date : {Null},
     priority : {Null},
     created_date : {At(2025, 1, 1, 9)}]
    \cup [title : {<<"B">>},
          completed : {FALSE},
          due_date : {Null},
          priority : {Null},
          created_date : {At(2024, 12, 30, 9)}]

-----------------------------------------------------------------------------
(* The main page and the Task Record Store *)

\* .order("created_date", { ascending: false }): ids grow with creation.
RECURSIVE NewestFirst(_)
NewestFirst(rows) ==
    IF rows = {} THEN <<>>
    ELSE LET newest == CHOOSE r \in rows : \A q \in rows : q.id <= r.id
         IN  <<newest>> \o NewestFirst(rows \ {newest})

\* The requests the page builds with the store client.
\* .select("*").eq("user_id", user)
SelectRequest(user) ==
    [op |-> "select", id |-> Null, user_id |-> Some(user), fields |-> Null]

\* .insert({ user_id, title, ..., completed: false })
InsertRequest(user) ==
    [op |-> "insert", id |-> Null, user_id |-> Some(user),
     fields |-> Some([completed |-> FALSE])]

\* .update(fields).eq("id", id).eq("user_id", user)
UpdateRequest(id, user, completed) ==
    [op |-> "update", id |-> Some(id), user_id |-> Some(user),
     fields |-> Some([completed |-> completed])]

\* .delete().eq("id", id).eq("user_id", user)
DeleteRequest(id, user) ==
    [op |-> "delete", id |-> Some(id), user_id |-> Some(user), fields |-> Null]

\* The rows a request is scoped to.
Scoped(st, req) ==
    {r \in st.rows : /\ (req.id # Null => r.id = req.id[1])
                     /\ (req.user_id # Null => r.user_id = req.user_id[1])}

Patched(r, fields) == [r EXCEPT !.completed = fields.completed]

\* The table after the store has carried a request out.
Applied(st, req) ==
    IF req.op = "insert"
    THEN [rows |-> st.rows \cup {Row(st.nextId, req.user_id[1],
                                     req.fields[1].completed)},
          nextId |-> st.nextId + 1]
    ELSE IF req.op = "update"
    THEN [st EXCEPT !.rows = (st.rows \ Scoped(st, req))
                             \cup {Patched(r, req.fields[1]) : r \in Scoped(st, req)}]
    ELSE IF req.op = "delete"
    THEN [st EXCEPT !.rows = st.rows \ Scoped(st, req)]
    ELSE st

\* The slot of the next handler that waits for the store.
FreeSlots == {i \in 1..MaxCalls : calls[i] = NoCall}
FreeSlot == CHOOSE i \in FreeSlots : \A j \in FreeSlots : i <= j

\* A request leaves the page and the handler waits for its answer. The
\* handler keeps the editingTodo of its render (only handleDeleteTodo reads
\* it later, and only its id); sentBy is the user signed in at this moment.
Send(i, handler, req, editing) ==
    calls' = [calls EXCEPT ![i] =
                 [handler |-> handler, request |-> req,
                  editingId |-> IF handler = "handleDeleteTodo" /\ editing # Null
                                THEN Some(editing[1].id) ELSE Null,
                  sentBy |-> currentUser, answer |-> Null]]

\* useEffect of TodoForm on its todo prop, run when the prop changes.
FormOf(editing) ==
    IF editing = Null THEN FALSE ELSE editing[1].completed

\* fetchUser of the page just mounted finds the session: setCurrentUser and
\* setIsLoading(false), and the effect on currentUser?.id calls fetchTodos.
SetCurrentUser ==
    \E user \in Visitors :
        /\ isLoading
        /\ currentUser' = Some(user)
        /\ isLoading' = FALSE
        /\ calls' = [calls EXCEPT ![1] = [handler |-> "fetchTodos",
                                          request |-> SelectRequest(user),
                                          editingId |-> Null,
                                          sentBy |-> Some(user),
                                          answer |-> Null]]
        /\ UNCHANGED <<pageVars, analysisVars, formVars, editingTodo, formCompleted,
                       store, errorToasted, apiVars>>

\* handleLogout / onAuthStateChange without session: setCurrentUser(null).
HandleLogout ==
    /\ currentUser # Null
    /\ currentUser' = Null
    /\ UNCHANGED <<pageVars, analysisVars, formVars, isLoading, editingTodo,
                   formCompleted, store, calls, errorToasted, apiVars>>

\* handleEditTodo, with the effect of TodoForm on the new todo prop.
HandleEditTodo ==
    \E i \in 1..Len(todos) :
        /\ currentUser # Null
        /\ editingTodo # Some(todos[i])
        /\ editingTodo' = Some(todos[i])
        /\ formCompleted' = FormOf(Some(todos[i]))
        /\ UNCHANGED <<pageVars, analysisVars, formVars, currentUser, isLoading, store,
                       calls, errorToasted, apiVars>>

\* handleFormCancel.
HandleFormCancel ==
    /\ currentUser # Null
    /\ editingTodo # Null
    /\ editingTodo' = Null
    /\ formCompleted' = FALSE
    /\ UNCHANGED <<pageVars, analysisVars, formVars, currentUser, isLoading, store,
                   calls, errorToasted, apiVars>>

\* The checkbox of the edit form: setCompleted(checked === true).
SetCompleted ==
    /\ currentUser # Null
    /\ editingTodo # Null
    /\ formCompleted' = ~formCompleted
    /\ UNCHANGED <<pageVars, analysisVars, formVars, currentUser, isLoading,
                   editingTodo, store, calls, errorToasted, apiVars>>

\* What a handler leaves alone when it sends its first request.
HandlerStarts ==
    UNCHANGED <<pageVars, analysisVars, formVars, currentUser, isLoading, editingTodo,
                formCompleted, store, errorToasted, apiVars>>

\* handleFormSubmit without editingTodo: handleAddTodo up to its await.
HandleAddTodo ==
    /\ currentUser # Null
    /\ editingTodo = Null
    /\ FreeSlots # {}
    /\ store.nextId + Cardinality({i \in 1..MaxCalls :
                                      /\ calls[i] # NoCall
                                      /\ calls[i].request.op = "insert"
                                      /\ calls[i].answer = Null}) <= MaxRows
    /\ Send(FreeSlot, "handleAddTodo", InsertRequest(currentUser[1]),
            editingTodo)
    /\ HandlerStarts

\* handleFormSubmit with editingTodo: handleUpdateTodo up to its await.
\* data.completed is the form's checkbox, never undefined.
HandleUpdateTodo ==
    /\ currentUser # Null
    /\ editingTodo # Null
    /\ FreeSlots # {}
    /\ Send(FreeSlot, "handleUpdateTodo",
            UpdateRequest(editingTodo[1].id, currentUser[1], formCompleted),
            editingTodo)
    /\ HandlerStarts

\* handleDeleteTodo, confirmed, up to its await.
HandleDeleteTodo ==
    \E i \in 1..Len(todos) :
        /\ currentUser # Null
        /\ FreeSlots # {}
        /\ Send(FreeSlot, "handleDeleteTodo",
                DeleteRequest(todos[i].id, currentUser[1]), editingTodo)
        /\ HandlerStarts

\* handleToggleComplete(todo.id, checked) from the checkbox of a list item,
\* which shows todo.completed, up to its await.
HandleToggleComplete ==
    \E i \in 1..Len(todos) :
        /\ currentUser # Null
        /\ FreeSlots # {}
        /\ Send(FreeSlot, "handleToggleComplete",
                UpdateRequest(todos[i].id, currentUser[1],
                              ~todos[i].completed),
                editingTodo)
        /\ HandlerStarts

\* The store carries a request out, or fails, and answers.
StoreAnswers ==
    \E i \in 1..MaxCalls, ok \in BOOLEAN :
        /\ calls[i] # NoCall
        /\ calls[i].answer = Null
        /\ store' = IF ok THEN Applied(store, calls[i].request) ELSE store
        /\ calls' = [calls EXCEPT ![i].answer =
                        Some([ok |-> ok,
                              data |-> IF ok /\ calls[i].request.op = "select"
                                       THEN NewestFirst(Scoped(store, calls[i].request))
                                       ELSE <<>>])]
        /\ UNCHANGED <<pageVars, analysisVars, formVars, currentUser, isLoading,
                       editingTodo, formCompleted, errorToasted, apiVars>>

\* setEditingTodo(null) of a handler, with the effect of TodoForm.
EditingCleared(clear) ==
    /\ editingTodo' = IF clear THEN Null ELSE editingTodo
    /\ formCompleted' = IF clear /\ editingTodo # Null THEN FALSE
                        ELSE formCompleted

\* A handler that ends after its mutation without fetching the tasks again.
MutationSettlesWithoutFetch ==
    \E i \in 1..MaxCalls :
        /\ calls[i] # NoCall
        /\ calls[i].request.op # "select"
        /\ calls[i].answer # Null
        /\ errorToasted' = (errorToasted \/ ~calls[i].answer[1].ok)
        /\ calls' = [calls EXCEPT ![i] = NoCall]
        /\ UNCHANGED <<pageVars, analysisVars, formVars, currentUser, isLoading,
                       editingTodo, formCompleted, store, apiVars>>

\* A handler goes on after the await of its mutation: on success it calls
\* fetchTodos, whose currentUser is the one the handler started with; on
\* failure it toasts the error and ends.
MutationSettles ==
    \E i \in 1..MaxCalls :
        /\ calls[i] # NoCall
        /\ calls[i].request.op # "select"
        /\ calls[i].answer # Null
        /\ IF calls[i].answer[1].ok
           THEN /\ EditingCleared(
                       \/ calls[i].handler = "handleUpdateTodo"
                       \/ /\ calls[i].handler = "handleDeleteTodo"
                          /\ calls[i].editingId = calls[i].request.id)
                /\ Send(i, calls[i].handler,
                        SelectRequest(calls[i].request.user_id[1]), Null)
                /\ UNCHANGED errorToasted
           ELSE /\ errorToasted' = TRUE
                /\ calls' = [calls EXCEPT ![i] = NoCall]
                /\ UNCHANGED <<editingTodo, formCompleted>>
        /\ UNCHANGED <<pageVars, analysisVars, formVars, currentUser, isLoading, store,
                       apiVars>>

\* fetchTodos goes on after its await: setTodos(data), or a toast; then the
\* handler that called it ends (handleAddTodo with setEditingTodo(null)).
FetchTodosSettles ==
    \E i \in 1..MaxCalls :
        /\ calls[i] # NoCall
        /\ calls[i].request.op = "select"
        /\ calls[i].answer # Null
        /\ todos' = IF calls[i].answer[1].ok THEN calls[i].answer[1].data
                    ELSE todos
        /\ errorToasted' = (errorToasted \/ ~calls[i].answer[1].ok)
        /\ EditingCleared(calls[i].handler = "handleAddTodo")
        /\ calls' = [calls EXCEPT ![i] = NoCall]
        /\ UNCHANGED <<searchQuery, statusFilter, priorityFilter, sortBy,
                       sortOrder, analysisVars, formVars, currentUser, isLoading, store,
                       apiVars>>

-----------------------------------------------------------------------------
(* The form that adds a task, and its fill from the extraction endpoint.   *)
(* The browser is in the zone of the server.                               *)

\* getFullYear, getMonth() + 1 and getDate of the day that is z days after
\* 1970-01-01.
CivilFromDays(z) ==
    LET z0 == z + 719468
        era == z0 \div 146097
        doe == z0 - era * 146097
        yoe == (doe - doe \div 1460 + doe \div 36524 - doe \div 146096) \div 365
        doy == doe - (365 * yoe + yoe \div 4 - yoe \div 100)
        mp == (5 * doy + 2) \div 153
        m == IF mp < 10 THEN mp + 3 ELSE mp - 9
    IN  [year |-> yoe + era * 400 + (IF m <= 2 THEN 1 ELSE 0),
         month |-> m,
         date |-> doy - (153 * mp + 2) \div 5 + 1]

\* new Date(data.due_date) of a text "YYYY-MM-DDTHH:MM:SS" and the
\* datetime-local text built from its parts; null when the Date is invalid.
ToDatetimeLocal(iso) ==
    LET m == DateMatch(iso)
        date == IF m.matched /\ m.timePart # Null /\ Len(iso) = 19
                THEN ParseLocalDateTime(m.dateOnly, m.timePart[1])
                ELSE Null
    IN  IF date = Null THEN Null
        ELSE LET civil == CivilFromDays(date[1] \div HoursPerDay)
             IN  Some(DateText(civil.year, civil.month, civil.date)
                      \o <<"T">> \o Pad(GetHours(date[1]), 2)
                      \o <<":">> \o SubSeq(iso, 15, 16))

\* What is typed into the form.
AiInputs == {<<" ">>, <<"a">>, <<"a", "b", " ">>}
TypedTexts == {<<"m">>}
TypedDueDates == {DateText(2025, 1, 9) \o <<"T", "1", "0", ":", "0", "0">>}
TypedPriorities == {"low"}
CategoryOptions == {"work"}
FormNows == {At(2025, 1, 1, 10)}

\* What generateObject resolves with for the form's request.
FormResults ==
    {Generated(<<"a", "b">>, d, Null, Null, Null) :
        d \in {Null, Some(<<" ">>), Some(<<"d">>)}}
    \cup {Generated(<<>>, Null, Some(t), Some("high"), Some(<<"work">>)) :
            t \in {DateText(2025, 1, 2),
                   DateText(2025, 1, 3) \o TimeText(15, 30, 0),
                   DateText(2025, 1, 31) \o TimeText(24, 0, 0),
                   DateText(2024, 12, 1) \o TimeText(15, 30, 0)}}

\* onChange of the inputs of the form, and toggleCategory.
SetAiInput ==
    \E value \in AiInputs :
        /\ ~isGenerating
        /\ value # aiInput
        /\ aiInput' = value
        /\ UNCHANGED <<formTitle, formDescription, formDueDate, formPriority,
                       formCategories, isGenerating, aiCall, aiData, aiToast>>
        /\ UNCHANGED <<pageVars, analysisVars, storeVars, apiVars>>

SetTitle ==
    \E value \in TypedTexts :
        /\ value # formTitle
        /\ formTitle' = value
        /\ UNCHANGED <<formDescription, formDueDate, formPriority,
                       formCategories, aiInput, isGenerating, aiCall, aiData,
                       aiToast>>
        /\ UNCHANGED <<pageVars, analysisVars, storeVars, apiVars>>

SetDescription ==
    \E value \in TypedTexts :
        /\ value # formDescription
        /\ formDescription' = value
        /\ UNCHANGED <<formTitle, formDueDate, formPriority, formCategories,
                       aiInput, isGenerating, aiCall, aiData, aiToast>>
        /\ UNCHANGED <<pageVars, analysisVars, storeVars, apiVars>>

SetDueDate ==
    \E value \in TypedDueDates :
        /\ value # formDueDate
        /\ formDueDate' = value
        /\ UNCHANGED <<formTitle, formDescription, formPriority, formCategories,
                       aiInput, isGenerating, aiCall, aiData, aiToast>>
        /\ UNCHANGED <<pageVars, analysisVars, storeVars, apiVars>>

SetPriority ==
    \E value \in TypedPriorities :
        /\ value # formPriority
        /\ formPriority' = value
        /\ UNCHANGED <<formTitle, formDescription, formDueDate, formCategories,
                       aiInput, isGenerating, aiCall, aiData, aiToast>>
        /\ UNCHANGED <<pageVars, analysisVars, storeVars, apiVars>>

toggleCategory ==
    \E category \in CategoryOptions :
        /\ formCategories' =
               IF \E i \in 1..Len(formCategories) : formCategories[i] = category
               THEN SelectSeq(formCategories, LAMBDA c : c # category)
               ELSE Append(formCategories, category)
        /\ UNCHANGED <<formTitle, formDescription, formDueDate, formPriority,
                       aiInput, isGenerating, aiCall, aiData, aiToast>>
        /\ UNCHANGED <<pageVars, analysisVars, storeVars, apiVars>>

\* handleAiGenerate up to the await of its fetch (the button, or Enter in the
\* input; both are disabled while isGenerating).
HandleAiGenerate ==
    /\ ~isGenerating
    /\ IF Trim(aiInput) = <<>>
       THEN /\ aiToast' = "error"
            /\ UNCHANGED <<isGenerating, aiCall>>
       ELSE /\ isGenerating' = TRUE
            /\ aiCall' = Some(Trim(aiInput))
            /\ UNCHANGED aiToast
    /\ UNCHANGED <<formTitle, formDescription, formDueDate, formPriority,
                   formCategories, aiInput, aiData>>
    /\ UNCHANGED <<pageVars, analysisVars, storeVars, apiVars>>

\* What the extraction endpoint answers to the form's request when
\* generateObject resolves with generated: the response of the validation, or
\* the responseData.
GenerateAnswer(input, generated) ==
    LET v == GenerateValidation(GenerateBody(TRUE, input))
    IN  IF v.status # 0 THEN v
        ELSE GenerateResponseData(generated, v.processedInput, now)

\* handleAiGenerate after the await of its fetch. A response that is not ok
\* is thrown and toasted; the data of one that is ok is put into the form
\* field by field, each under `if (data.<field>)`; finally
\* setIsGenerating(false).
AiGenerateSettles ==
    \E generated \in FormResults, resolves \in BOOLEAN :
        LET data == IF resolves THEN GenerateAnswer(aiCall[1], generated)
                    ELSE GenerateCatch([hasMessage |-> FALSE, message |-> <<>>],
                                       nodeEnv)
            local == IF data.status = 200 /\ data.due_date # Null
                     THEN ToDatetimeLocal(data.due_date[1])
                     ELSE Null
        IN  /\ aiCall # Null
            /\ IF data.status # 200
               THEN /\ aiToast' = "error"
                    /\ UNCHANGED <<formTitle, formDescription, formDueDate,
                                   formPriority, formCategories, aiInput, aiData>>
               ELSE /\ aiData' = Some(data)
                    /\ formTitle' = IF data.title # <<>> THEN data.title
                                    ELSE formTitle
                    /\ formDescription' =
                           IF data.description # Null /\ data.description[1] # <<>>
                           THEN data.description[1]
                           ELSE formDescription
                    /\ formDueDate' = IF local # Null THEN local[1] ELSE formDueDate
                    /\ formPriority' = data.priority
                    /\ formCategories' = data.category
                    /\ aiInput' = <<>>
                    /\ aiToast' = "success"
            /\ isGenerating' = FALSE
            /\ aiCall' = Null
            /\ UNCHANGED <<pageVars, analysisVars, storeVars, apiVars>>

-----------------------------------------------------------------------------
(* Specifications *)

\* The main page and the store.
NextStore ==
    \/ SetCurrentUser
    \/ HandleLogout
    \/ HandleEditTodo
    \/ HandleFormCancel
    \/ SetCompleted
    \/ HandleAddTodo
    \/ HandleUpdateTodo
    \/ HandleDeleteTodo
    \/ HandleToggleComplete
    \/ StoreAnswers
    \/ MutationSettles
    \/ FetchTodosSettles

InitStore == PageIdle /\ ApiIdle

SpecStore == InitStore /\ [][NextStore]_vars

\* The analysis card of the main page: its tabs, its buttons and the
\* answers to its requests.
NextAnalysisUi ==
    \/ SetAnalysisPeriod
    \/ HandleAnalyzeTodos
    \/ RetryAnalyzeTodos
    \/ AnalyzeTodosSettles

InitAnalysisUi ==
    /\ InitPage(StoreLists(CardFields))
    /\ InitApi(AnalyzeNows, {"production"})

SpecAnalysisUi == InitAnalysisUi /\ [][NextAnalysisUi]_vars

\* The main page asking for an analysis.
NextWindow == SetAnalysisPeriod \/ HandleAnalyzeTodos

InitWindow ==
    /\ InitPage(StoreLists(WindowFields))
    /\ InitApi(WindowNows, {"production"})

SpecWindow == InitWindow /\ [][NextWindow]_vars

\* Both endpoints: validation, the remote call and its failures.
NextApi ==
    \/ GeneratePOST(GenerateBodies)
    \/ GenerateRemoteReturns({PlainGenerated})
    \/ GenerateRemoteThrows(RemoteErrors)
    \/ AnalyzePOST(ApiAnalyzeBodies)
    \/ AnalyzeRemoteReturns(AnalysisResults)
    \/ AnalyzeRemoteThrows(RemoteErrors)

InitOfApi == PageIdle /\ InitApi(ApiNows, Environments)

SpecApi == InitOfApi /\ [][NextApi]_vars

\* The form that adds a task.
NextForm ==
    \/ SetAiInput
    \/ SetTitle
    \/ SetDescription
    \/ SetDueDate
    \/ SetPriority
    \/ toggleCategory
    \/ HandleAiGenerate
    \/ AiGenerateSettles

InitForm == InitPage({<<>>}) /\ InitApi(FormNows, {"production"})

SpecForm == InitForm /\ [][NextForm]_vars

\* The extraction endpoint and the post-processing of what the service returns.
NextExtract ==
    \/ GeneratePOST(GenerateBodies)
    \/ GenerateRemoteReturns(ExtractResults)

InitExtract == PageIdle /\ InitApi(ExtractNows, Environments)

SpecExtract == InitExtract /\ [][NextExtract]_vars

\* The analysis endpoint and its aggregator.
NextAnalyze ==
    \/ AnalyzePOST(AnalyzeBodies)
    \/ AnalyzeRemoteReturns(AnalysisResults)

InitAnalyze == PageIdle /\ InitApi(AnalyzeNows, {"production"})

SpecAnalyze == InitAnalyze /\ [][NextAnalyze]_vars

-----------------------------------------------------------------------------
(* Properties of the Filter/Sort Engine *)

\* C1: with sort key `due`, in both directions, every task lacking a due
\* timestamp appears in the output after every task that has one.
C1_DueNullsLast ==
    sortBy = "due" =>
        \A i, j \in 1..Len(filteredAndSortedTodos) :
            (filteredAndSortedTodos[i].due_date = Null
                /\ filteredAndSortedTodos[j].due_date # Null) => j < i

\* The case of C1: sorted by `due`, a task with and a task without a due
\* timestamp are both shown.
C1_MixedDueShown ==
    /\ sortBy = "due"
    /\ \E i, j \in 1..Len(filteredAndSortedTodos) :
            /\ filteredAndSortedTodos[i].due_date = Null
            /\ filteredAndSortedTodos[j].due_date # Null

\* The search predicate as the interface states it.
TitleContains(todo) ==
    \/ \A k \in 1..Len(searchQuery) : IsWhitespace(searchQuery[k])
    \/ Includes(ToLowerCase(todo.title), ToLowerCase(searchQuery))

StatusHolds(todo) ==
    \/ statusFilter = "all"
    \/ statusFilter = "completed" /\ todo.completed
    \/ statusFilter = "pending" /\ ~todo.completed
    \/ statusFilter = "waiting" /\ ~todo.completed /\ todo.due_date = Null

PriorityHolds(todo) ==
    \/ priorityFilter = "all"
    \/ todo.priority # Null /\ todo.priority[1] = priorityFilter

Selected ==
    {i \in 1..Len(todos) :
        TitleContains(todos[i]) /\ StatusHolds(todos[i]) /\ PriorityHolds(todos[i])}

SpreadTargetAliased == "todos"

SpreadTarget == "filtered"

UseMemo(ts, q, st, pf, sb, so) ==
    LET filterApplied == \/ Trim(q) # <<>>
                         \/ st \in {"completed", "pending", "waiting"}
                         \/ pf # "all"
        sortedArray == IF filterApplied THEN "filtered" ELSE SpreadTarget
        sorted == FilterSort(ts, q, st, pf, sb, so)
        arrays == [todos |-> ts, filtered |-> ts]
        after == [arrays EXCEPT ![sortedArray] = sorted]
    IN  [todos |-> after.todos, filtered |-> sorted]

\* The elements of a sequence.
Elements(s) == {s[i] : i \in 1..Len(s)}

WithStatus(st) ==
    FilterSort(todos, searchQuery, st, priorityFilter, sortBy, sortOrder)

C13_InitialViewIsStoreOrder ==
    (/\ searchQuery = <<>>
     /\ statusFilter = "all"
     /\ priorityFilter = "all"
     /\ sortBy = "created"
     /\ sortOrder = "desc") => filteredAndSortedTodos = todos

\* The case of C13: the initial filter state, and the store returned two
\* different tasks with the same created timestamp.
C13_EqualCreatedShown ==
    /\ searchQuery = <<>> /\ statusFilter = "all" /\ priorityFilter = "all"
    /\ sortBy = "created" /\ sortOrder = "desc"
    /\ Len(todos) = 2
    /\ todos[1].created_date = todos[2].created_date
    /\ todos[1].title # todos[2].title

\* The ordinal of a task's priority: high 3, medium 2, low 1, unset 0.
Ordinal(todo) ==
    IF todo.priority = Null THEN 0
    ELSE IF todo.priority[1] = "high" THEN 3
    ELSE IF todo.priority[1] = "medium" THEN 2
    ELSE 1

\* C14: with sort key `priority` and direction desc every task precedes
\* every task of strictly lower ordinal, with direction asc every task of
\* strictly higher ordinal; tasks of equal ordinal keep their input order.
C14_PriorityOrder ==
    (sortBy = "priority" /\ statusFilter = "all" /\ priorityFilter = "all"
        /\ searchQuery = <<>>) =>
        \A i, j \in 1..Len(filteredAndSortedTodos) :
            LET a == filteredAndSortedTodos[i]
                b == filteredAndSortedTodos[j]
            IN  i < j =>
                    /\ sortOrder = "desc" => Ordinal(a) >= Ordinal(b)
                    /\ sortOrder = "asc" => Ordinal(a) <= Ordinal(b)
                    /\ Ordinal(a) = Ordinal(b) => a.id < b.id

\* The case of C14: direction asc moves a task without priority in front of
\* a high-priority task.
C14_AscendingReorders ==
    /\ sortBy = "priority"
    /\ sortOrder = "asc"
    /\ Len(todos) = 2
    /\ todos[1].priority = Some("high")
    /\ todos[2].priority = Null
    /\ filteredAndSortedTodos = <<todos[2], todos[1]>>

-----------------------------------------------------------------------------
(* Properties of the Temporal Window Classifier *)

WeekAsked == analysisLocals.period = "week"

CurrentDay == now \div HoursPerDay

\* C15: for period `week` and every current date, Sunday included, the
\* window starts on the Monday on or before the current date at
\* 00:00:00.000, ends on the Sunday six days after that Monday at
\* 23:59:59.999, and contains the current date.
C15_WeekIsMondayToSunday ==
    WeekAsked =>
        LET start == analysisLocals.window.start
            end == analysisLocals.window.end
        IN  /\ (start.day + 4) % 7 = 1
            /\ start.day <= CurrentDay
            /\ CurrentDay - start.day <= 6
            /\ start.ms = 0
            /\ end.day = start.day + 6
            /\ end.ms = 23 * 3600000 + 59 * 60000 + 59 * 1000 + 999
            /\ start.day <= CurrentDay /\ CurrentDay <= end.day

\* The case of C15: the week is asked for on a Sunday.
C15_WeekAskedOnSunday ==
    /\ WeekAsked
    /\ (CurrentDay + 4) % 7 = 0
    /\ analysisLocals.window.end.day = CurrentDay


Responded == pc = "responded"

\* A request that breaks a rule of the input validation.
MalformedGenerate ==
    /\ request.endpoint = "generate"
    /\ \/ request.body.kind = "null"
       \/ /\ request.body.kind = "object"
          /\ \/ ~request.body.input.isString
             \/ Len(NormalizeInput(request.body.input.text)) < 2
             \/ Len(NormalizeInput(request.body.input.text)) > 500

MalformedAnalyze ==
    /\ request.endpoint = "analyze"
    /\ \/ request.body.kind = "null"
       \/ /\ request.body.kind = "object"
          /\ \/ ~request.body.todos.isArray
             \/ request.body.period \notin {"today", "week"}

\* C2: on both endpoints a request whose input is malformed or out of range
\* is answered with status 400, whatever else holds of the request, the
\* service credential included.
C2_MalformedAlways400 ==
    (Responded /\ (MalformedGenerate \/ MalformedAnalyze)) => response.status = 400

\* The case of C2: a malformed request has been answered while the credential
\* is configured.
C2_MalformedAnswered ==
    Responded /\ apiKey /\ (MalformedGenerate \/ MalformedAnalyze)

EmptyAnalysisRequest ==
    /\ request.endpoint = "analyze"
    /\ request.body.kind = "object"
    /\ request.body.todos.isArray
    /\ request.body.todos.items = <<>>
    /\ request.body.period \in {"today", "week"}

CannedEmptyState ==
    /\ response.status = 200
    /\ response.urgentTasks = <<>>
    /\ Len(response.insights) = 1
    /\ response.recommendations = <<>>

\* C3, as the code has it: a request with an empty todos array and period
\* today or week never invokes the remote service; it is answered with the
\* canned empty-state response (200, no urgent tasks, one insight, no
\* recommendations) when the service credential is configured, and with 500
\* when it is not.
C3_EmptyShortCircuits ==
    EmptyAnalysisRequest =>
        /\ Responded
        /\ remoteCalls = <<>>
        /\ remote.kind = "none"
        /\ IF apiKey THEN CannedEmptyState ELSE response.status = 500

\* C3 as stated: every such request is answered with the canned empty-state
\* response and never invokes the remote service.
C3_EmptyAlwaysCanned ==
    EmptyAnalysisRequest =>
        /\ Responded
        /\ remoteCalls = <<>>
        /\ CannedEmptyState

\* The case of C3: an empty task list for the week has been answered with 200.
C3_EmptyWeekAnswered ==
    /\ EmptyAnalysisRequest
    /\ request.body.period = "week"
    /\ apiKey
    /\ response.status = 200

RemoteFailed == Responded /\ remote.kind = "rejected"

QuotaSignal ==
    remote.error.hasMessage /\ IncludesAny(remote.error.message, QuotaNeedles)

InputSignal ==
    remote.error.hasMessage /\ IncludesAny(remote.error.message, InputNeedles)

\* C4, as the code has it: on both endpoints a quota or rate-limit signal is
\* answered with 429; a failure without that signal is never answered with
\* 429: it is answered with 400 when its message contains invalid,
\* validation, bad request or 400, and with 500 otherwise.
C4_RemoteFailureStatus ==
    RemoteFailed =>
        response.status = IF QuotaSignal THEN 429
                          ELSE IF InputSignal THEN 400
                          ELSE 500

\* C4 as stated: a failure that is not a quota signal is answered with 500,
\* a quota signal with 429.
C4_NonQuotaAlways500 ==
    RemoteFailed => response.status = IF QuotaSignal THEN 429 ELSE 500

\* The case of C4: the analysis endpoint answered 400 for a remote failure
\* that carries no quota signal.
C4_InputSignalAnswered ==
    /\ RemoteFailed
    /\ request.endpoint = "analyze"
    /\ ~QuotaSignal
    /\ InputSignal
    /\ response.status = 400

-----------------------------------------------------------------------------
(* Properties of the extractor's post-processing *)

Extracted == Responded /\ remote.kind = "resolved" /\ request.endpoint = "generate"

\* YYYY-MM-DD and nothing else; YYYY-MM-DDTHH:MM:SS and nothing else.
IsDateOnlyText(s) == Len(s) = 10 /\ DatePrefixMatches(s)
IsDateTimeText(s) == Len(s) = 19 /\ DatePrefixMatches(s) /\ TimeGroupMatches(s)

\* C5: in every success response the due_date is null or exactly a date
\* YYYY-MM-DD followed by THH:MM:SS, and a remote due_date of any other shape
\* than these, a matching prefix with extra characters included, is discarded.
C5_DueDateExactShape ==
    Extracted =>
        /\ response.due_date # Null => IsDateTimeText(response.due_date[1])
        /\ (/\ remote.object.due_date # Null
            /\ ~IsDateOnlyText(remote.object.due_date[1])
            /\ ~IsDateTimeText(remote.object.due_date[1]))
           => response.due_date = Null

\* The case of C5: the service returned a due_date that starts like a date
\* and goes on with other characters.
C5_PrefixWithExtraCharacters ==
    /\ Extracted
    /\ remote.object.due_date # Null
    /\ DatePrefixMatches(remote.object.due_date[1])
    /\ ~IsDateOnlyText(remote.object.due_date[1])
    /\ ~IsDateTimeText(remote.object.due_date[1])

\* The calendar date a text starts with: its day number, or null when the
\* text names no month 1..12 and day 1..31.
CalendarDay(s) ==
    LET y == ParseInt(SubSeq(s, 1, 4))
        m == ParseInt(SubSeq(s, 6, 7))
        d == ParseInt(SubSeq(s, 9, 10))
    IN  IF m \in 1..12 /\ d \in 1..31 THEN Some(DaysFromCivil(y, m, d)) ELSE Null

Today == now \div HoursPerDay

\* C6: in every success response the due_date is null or its calendar date
\* is not earlier than the day before the current date; a remote date more
\* than one day in the past is discarded, a date exactly one day in the past
\* is kept, and a date-only value is returned with the time 09:00:00.
C6_DueDateNotBeforeYesterday ==
    Extracted =>
        /\ response.due_date # Null =>
              /\ CalendarDay(response.due_date[1]) # Null
              /\ CalendarDay(response.due_date[1])[1] >= Today - 1
        /\ (/\ remote.object.due_date # Null
            /\ (IsDateOnlyText(remote.object.due_date[1])
                    \/ IsDateTimeText(remote.object.due_date[1]))
            /\ CalendarDay(remote.object.due_date[1]) # Null)
           => /\ CalendarDay(remote.object.due_date[1])[1] < Today - 1
                    => response.due_date = Null
              /\ CalendarDay(remote.object.due_date[1])[1] = Today - 1
                    => response.due_date # Null
        /\ (/\ remote.object.due_date # Null
            /\ IsDateOnlyText(remote.object.due_date[1])
            /\ response.due_date # Null)
           => response.due_date[1] =
                  remote.object.due_date[1] \o TimeText(9, 0, 0)

\* The case of C6: the service returned a date-only value of yesterday and
\* the response carries it.
C6_YesterdayKept ==
    /\ Extracted
    /\ remote.object.due_date # Null
    /\ IsDateOnlyText(remote.object.due_date[1])
    /\ CalendarDay(remote.object.due_date[1]) = Some(Today - 1)
    /\ response.due_date # Null

-----------------------------------------------------------------------------
(* Properties of the Analytics Aggregator *)

\* The handler has computed its statistics over the tasks of the request.
Analyzed == request.endpoint = "analyze" /\ remoteCalls # <<>>

analysed == request.body.todos.items

\* The tasks that list a label, each once however often it lists the label.
Listing(label) ==
    {i \in 1..Len(analysed) :
        /\ analysed[i].category # Null
        /\ \E k \in 1..Len(analysed[i].category[1]) :
               analysed[i].category[1][k] = label}

\* C7: per-category counting has set semantics: a task adds exactly 1 to the
\* total of every distinct label it lists and, if completed, exactly 1 to the
\* label's completed counter, also when it lists the label more than once.
C7_CategorySetSemantics ==
    Analyzed =>
        \A e \in 1..Len(locals.categoryStats) :
            LET stat == locals.categoryStats[e]
            IN  /\ stat.total = Cardinality(Listing(stat.key))
                /\ stat.completed =
                       Cardinality({i \in Listing(stat.key) : analysed[i].completed})

\* The case of C7: a task of the request lists a label twice.
C7_DuplicateLabelCounted ==
    /\ Analyzed
    /\ \E i \in 1..Len(analysed) :
           /\ analysed[i].category # Null
           /\ Len(analysed[i].category[1]) = 2
           /\ analysed[i].category[1][1] = analysed[i].category[1][2]

\* a's ratio completed/created against b's, for buckets with created tasks.
RatioLess(a, b) == a.completed * b.created < b.completed * a.created

\* The selection is the first bucket, in label order, of the highest ratio
\* among the buckets with a created task.
IsMostProductive(selected, stats) ==
    /\ selected.created >= 1
    /\ \E s \in 1..Len(stats) :
           /\ stats[s] = selected
           /\ \A b \in 1..Len(stats) :
                  stats[b].created >= 1 =>
                      /\ ~RatioLess(selected, stats[b])
                      /\ b < s => RatioLess(stats[b], selected)

\* C8: whenever the analysed tasks are not empty, the most productive day,
\* and likewise the most productive time slot, is a bucket with at least one
\* created task, no bucket with a created task has a strictly higher
\* completed/created ratio, and ties go to the first bucket in label order.
C8_MostProductiveHasCreated ==
    Analyzed =>
        /\ IsMostProductive(locals.mostProductiveDay, locals.dayOfWeekStats)
        /\ IsMostProductive(locals.mostProductiveTime, locals.hourStats)

\* The case of C8: tasks created on different days, none of them completed.
C8_NothingCompleted ==
    /\ Analyzed
    /\ Len(analysed) >= 2
    /\ \A i \in 1..Len(analysed) : ~analysed[i].completed
    /\ \E i, j \in 1..Len(analysed) :
           GetDay(analysed[i].created_date) # GetDay(analysed[j].created_date)

\* The tasks the shortlist may name, by their position in the request.
Shortlisted(DueSoon(_)) ==
    {i \in 1..Len(analysed) :
        /\ ~analysed[i].completed
        /\ \/ analysed[i].priority = Some("high")
           \/ /\ analysed[i].due_date # Null
              /\ DueSoon(analysed[i].due_date[1] - now)}

WithinOneDay(hours) == hours <= HoursPerDay
WithinTwoDays(hours) == hours < 2 * HoursPerDay

\* The shortlist names the first tasks of the set, at most 5, in request order.
IsShortlistOf(qualifying) ==
    /\ Len(locals.urgentTasks) <= 5
    /\ Len(locals.urgentTasks) <= Cardinality(qualifying)
    /\ Len(locals.urgentTasks) < 5 => Len(locals.urgentTasks) = Cardinality(qualifying)
    /\ \A k \in 1..Len(locals.urgentTasks) :
           \E i \in qualifying :
               /\ analysed[i].title = locals.urgentTasks[k]
               /\ Cardinality({j \in qualifying : j < i}) = k - 1

-----------------------------------------------------------------------------
(* Properties of the rates *)

\* A request whose todos is an array: the subset the page shows the rate of.
SubsetGiven ==
    /\ request.endpoint = "analyze"
    /\ request.body.kind = "object"
    /\ request.body.todos.isArray

NoneCompleted == \A i \in 1..Len(analysed) : ~analysed[i].completed

\* A rate within [0, 100] that is 0 exactly when `zero` holds.
IsProperRate(rate, zero) ==
    /\ rate.den > 0
    /\ rate.num >= 0
    /\ rate.num <= 100 * rate.den
    /\ (rate.num = 0) <=> zero

\* C16: the completion rate of the server aggregator and of the page's
\* calculateCompletionRate is within [0, 100], is 0 exactly when the subset
\* is empty or has no completed task, and is the same in both for the same
\* subset.
C16_CompletionRate ==
    /\ SubsetGiven =>
           IsProperRate(calculateCompletionRate(analysed),
                        analysed = <<>> \/ NoneCompleted)
    /\ Analyzed =>
           /\ IsProperRate(locals.completionRate, NoneCompleted)
           /\ locals.completionRate.num * calculateCompletionRate(analysed).den
                 = calculateCompletionRate(analysed).num * locals.completionRate.den

\* The case of C16: one of three analysed tasks is completed.
C16_OneOfThreeCompleted ==
    /\ Analyzed
    /\ Len(analysed) = 3
    /\ Len(SelectSeq(analysed, LAMBDA t : t.completed)) = 1
    /\ locals.completionRate = [num |-> 100, den |-> 3]

WithDue == {i \in 1..Len(analysed) : analysed[i].due_date # Null}

Overdue ==
    {i \in WithDue : ~analysed[i].completed /\ analysed[i].due_date[1] < now}

OnTime ==
    {i \in WithDue :
        analysed[i].completed /\ analysed[i].created_date <= analysed[i].due_date[1]}

\* C17: among the tasks with a due timestamp, the overdue set (not completed,
\* due strictly before now) and the completed-on-time set (completed, created
\* <= due) are disjoint, their sizes sum to at most the number of tasks with
\* a due timestamp, and the compliance rate completedOnTime / withDue * 100
\* is within [0, 100] and is 0 when no task has a due timestamp.
C17_DeadlineCompliance ==
    Analyzed =>
        /\ Elements(locals.overdueTodos) = {analysed[i] : i \in Overdue}
        /\ Len(locals.overdueTodos) = Cardinality(Overdue)
        /\ Elements(locals.completedOnTime) = {analysed[i] : i \in OnTime}
        /\ Len(locals.completedOnTime) = Cardinality(OnTime)
        /\ Elements(locals.overdueTodos) \cap Elements(locals.completedOnTime) = {}
        /\ Len(locals.overdueTodos) + Len(locals.completedOnTime)
              <= Len(locals.todosWithDueDate)
        /\ Len(locals.todosWithDueDate) = Cardinality(WithDue)
        /\ locals.deadlineComplianceRate.den > 0
        /\ locals.deadlineComplianceRate.num >= 0
        /\ locals.deadlineComplianceRate.num <= 100 * locals.deadlineComplianceRate.den
        /\ locals.deadlineComplianceRate.num * (IF WithDue = {} THEN 1
                                                ELSE Cardinality(WithDue))
              = (IF WithDue = {} THEN 0 ELSE 100 * Cardinality(OnTime))
                    * locals.deadlineComplianceRate.den

\* The case of C17: an overdue task, a task completed on time and a task
\* without due timestamp are analysed together.
C17_OverdueAndOnTime ==
    /\ Analyzed
    /\ Len(analysed) = 3
    /\ Len(locals.overdueTodos) = 1
    /\ Len(locals.completedOnTime) = 1
    /\ Len(locals.todosWithDueDate) = 2

-----------------------------------------------------------------------------
(* Properties of the extraction endpoint's input and defaults *)

ServiceInvokedForExtraction == request.endpoint = "generate" /\ remoteCalls # <<>>

\* No whitespace at the ends, no whitespace but the space, no two spaces
\* side by side.
IsNormalized(s) ==
    /\ s # <<>> => ~IsWhitespace(s[1]) /\ ~IsWhitespace(s[Len(s)])
    /\ \A i \in 1..Len(s) : IsWhitespace(s[i]) => s[i] = " "
    /\ \A i \in 1..(Len(s) - 1) : ~(s[i] = " " /\ s[i + 1] = " ")

Unspaced(s) == SelectSeq(s, LAMBDA c : ~IsWhitespace(c))

\* C18: the remote service is invoked only when the whitespace-normalized
\* input (runs of whitespace collapsed to one space, ends trimmed) has
\* between 2 and 500 characters, the text embedded in the call is that
\* normalized input, and normalizing it again changes nothing.
C18_InvokedOnNormalizedInput ==
    ServiceInvokedForExtraction =>
        LET raw == request.body.input.text
            sent == remoteCalls[1].input
        IN  /\ request.body.kind = "object"
            /\ request.body.input.isString
            /\ Len(remoteCalls) = 1
            /\ sent = NormalizeInput(raw)
            /\ IsNormalized(sent)
            /\ Unspaced(sent) = Unspaced(raw)
            /\ Len(sent) >= 2 /\ Len(sent) <= 500
            /\ NormalizeInput(sent) = sent

\* The case of C18: the input has whitespace at its ends and a run of
\* whitespace inside, and the service is called.
C18_RunsCollapsed ==
    /\ ServiceInvokedForExtraction
    /\ request.body.input.text = <<" ", "a", " ", "\t", "b", " ">>
    /\ remoteCalls[1].input = <<"a", " ", "b">>

IsPrefixOf(s, t) == Len(s) <= Len(t) /\ s = SubSeq(t, 1, Len(s))

\* C19, as the code has it: in every success response the title has at least
\* 2 and at most 200 characters; the remote title is trimmed first; a trimmed
\* title longer than 200 characters is returned as its first 197 characters
\* followed by the ellipsis marker, a trimmed title of 2 to 200 characters is
\* returned as it is, and an empty or shorter-than-2 one is replaced by a
\* prefix of the normalized input.
C19_TitleClampedAfterTrim ==
    Extracted =>
        LET trimmed == Trim(remote.object.title)
        IN  /\ Len(response.title) >= 2
            /\ Len(response.title) <= 200
            /\ Len(trimmed) > 200 =>
                   response.title = SubSeq(trimmed, 1, 197) \o <<".", ".", ".">>
            /\ (Len(trimmed) >= 2 /\ Len(trimmed) <= 200) =>
                   response.title = trimmed
            /\ Len(trimmed) < 2 =>
                   IsPrefixOf(response.title, locals.processedInput)

\* C19 as stated: 2 to 200 characters; a remote title longer than 200
\* characters is returned as its first 197 characters and the ellipsis
\* marker; a missing or shorter-than-2 remote title is replaced by a prefix
\* of the normalized input.
C19_TitleClamped ==
    Extracted =>
        /\ Len(response.title) >= 2
        /\ Len(response.title) <= 200
        /\ Len(remote.object.title) > 200 =>
               response.title =
                   SubSeq(remote.object.title, 1, 197) \o <<".", ".", ".">>
        /\ Len(remote.object.title) < 2 =>
               IsPrefixOf(response.title, locals.processedInput)

\* The case of C19: the remote title has 200 characters between two spaces.
C19_PaddedTitle ==
    /\ Extracted
    /\ Len(remote.object.title) = 202
    /\ Len(Trim(remote.object.title)) = 200
    /\ response.title = Trim(remote.object.title)

\* C20: in every success response priority is one of high, medium, low,
\* medium when the remote result has none, and category is a non-empty list,
\* the single default label when the remote result has none or an empty one.
C20_PriorityAndCategoryDefaults ==
    Extracted =>
        /\ response.priority \in {"high", "medium", "low"}
        /\ remote.object.priority = Null => response.priority = "medium"
        /\ remote.object.priority # Null =>
               response.priority = remote.object.priority[1]
        /\ Len(response.category) >= 1
        /\ (remote.object.category = Null \/ remote.object.category = Some(<<>>))
               => response.category = DefaultCategory
        /\ (remote.object.category # Null /\ remote.object.category # Some(<<>>))
               => response.category = remote.object.category[1]

\* The case of C20: the remote result has no priority and an empty category
\* list.
C20_NothingGiven ==
    /\ Extracted
    /\ remote.object.priority = Null
    /\ remote.object.category = Some(<<>>)
    /\ response.priority = "medium"

-----------------------------------------------------------------------------
(* Properties of the error messages *)

\* The user-facing messages the two catch blocks hold.
FixedFailureMessages ==
    IF request.endpoint = "generate"
    THEN {MsgQuotaGenerate, MsgBadInput, MsgAuthFailed, MsgGenerateFailed,
          MsgGenerateRetry}
    ELSE {MsgQuota, MsgBadInput, MsgAnalyzeFailed, MsgAnalyzeRetry}

\* C21: on both endpoints the raw message of a remote-service failure is
\* returned only in development mode; in every other mode the body of the
\* response to a remote failure is one of the fixed user-facing messages,
\* whatever the raw message says.
C21_RawMessageOnlyInDevelopment ==
    RemoteFailed =>
        /\ nodeEnv # "development" => response.error \in FixedFailureMessages
        /\ response.error \notin FixedFailureMessages =>
               /\ nodeEnv = "development"
               /\ remote.error.hasMessage
               /\ response.error = remote.error.message

\* The case of C21: outside development a remote failure whose message has
\* none of the signal words is answered.
C21_PlainFailureInProduction ==
    /\ RemoteFailed
    /\ nodeEnv = "production"
    /\ request.endpoint = "analyze"
    /\ remote.error.hasMessage
    /\ remote.error.message = <<"timeout">>
    /\ response.error = MsgAnalyzeRetry

-----------------------------------------------------------------------------
(* Properties of the aggregator's buckets *)

RECURSIVE SumOver(_, _)
SumOver(entries, field) ==
    IF entries = <<>> THEN 0
    ELSE entries[1][field] + SumOver(Tail(entries), field)

PriorityBuckets ==
    <<locals.priorityStats.high, locals.priorityStats.medium,
      locals.priorityStats.low, locals.priorityStats.none>>

LoadBuckets ==
    locals.timeDistribution.morning + locals.timeDistribution.afternoon
        + locals.timeDistribution.evening + locals.timeDistribution.other

CompletedIn == {i \in 1..Len(analysed) : analysed[i].completed}

\* C30: for an analysed subset whose priorities are high, medium, low or
\* unset, the four per-priority totals sum to the number of tasks and the
\* per-priority completed counts to the number of completed tasks; the
\* day-of-week created counts and the hour-of-day created counts each sum to
\* the number of tasks; the time-of-day load buckets sum to the number of
\* uncompleted tasks with a due timestamp; no completed count exceeds its
\* bucket's total.
C30_BucketsConserveCounts ==
    Analyzed =>
        /\ SumOver(PriorityBuckets, "total") = Len(analysed)
        /\ SumOver(PriorityBuckets, "completed") = Cardinality(CompletedIn)
        /\ SumOver(locals.dayOfWeekStats, "created") = Len(analysed)
        /\ SumOver(locals.hourStats, "created") = Len(analysed)
        /\ SumOver(locals.dayOfWeekStats, "completed") = Cardinality(CompletedIn)
        /\ SumOver(locals.hourStats, "completed") = Cardinality(CompletedIn)
        /\ LoadBuckets = Cardinality(WithDue \ CompletedIn)
        /\ \A i \in 1..Len(PriorityBuckets) :
               PriorityBuckets[i].completed <= PriorityBuckets[i].total
        /\ \A i \in 1..Len(locals.dayOfWeekStats) :
               locals.dayOfWeekStats[i].completed <= locals.dayOfWeekStats[i].created
        /\ \A i \in 1..Len(locals.hourStats) :
               locals.hourStats[i].completed <= locals.hourStats[i].created

\* The case of C30: three analysed tasks of three different priority
\* buckets, the unset one among them, one of them completed.
C30_ThreeBuckets ==
    /\ Analyzed
    /\ Len(analysed) = 3
    /\ locals.priorityStats.none.total = 1
    /\ locals.priorityStats.medium = [total |-> 1, completed |-> 1]
    /\ locals.priorityStats.high = [total |-> 1, completed |-> 0]
    /\ LoadBuckets = 2

-----------------------------------------------------------------------------
(* Properties of the page's requests to the Task Record Store *)

Waiting == {i \in 1..MaxCalls : calls[i] # NoCall}

Mutations == {"insert", "update", "delete"}

\* The tasks of the signed-in user as the store has them.
StoredTasks ==
    NewestFirst({r \in store.rows : Some(r.user_id) = currentUser})

\* C22: every update, completion-toggle and delete request the page sends
\* is scoped by the task id and by the id of the user signed in, and no
\* list, create, update or delete request is sent while no user is signed
\* in.
C22_RequestsOfTheSignedInUser ==
    \A i \in Waiting :
        /\ calls[i].sentBy # Null
        /\ calls[i].request.user_id = calls[i].sentBy
        /\ calls[i].request.op \in {"update", "delete"} =>
               calls[i].request.id # Null

\* The case of C22: a handler that started before the logout sends its
\* list request after it.
C22_RefetchAfterLogout ==
    \E i \in Waiting :
        /\ calls[i].handler = "handleToggleComplete"
        /\ calls[i].request.op = "select"
        /\ calls[i].sentBy = Null
        /\ currentUser = Null

\* C23: when a create, update, delete or completion toggle has succeeded,
\* the handler sends the request for the owner's whole task set in the same
\* step and ends only when that request has been answered; when the
\* mutation has failed the handler ends, sends nothing and leaves the local
\* task set as it is.
C23_RefetchAfterSuccessOnly ==
    [][\A i \in Waiting :
          (calls[i].request.op \in Mutations /\ calls'[i] # calls[i]) =>
              \/ /\ calls[i].answer = Null
                 /\ calls'[i] = [calls[i] EXCEPT !.answer = calls'[i].answer]
                 /\ calls'[i].answer # Null
              \/ /\ calls[i].answer # Null
                 /\ calls[i].answer[1].ok
                 /\ calls'[i] # NoCall
                 /\ calls'[i].handler = calls[i].handler
                 /\ calls'[i].request = SelectRequest(calls[i].request.user_id[1])
                 /\ calls'[i].answer = Null
              \/ /\ calls[i].answer # Null
                 /\ ~calls[i].answer[1].ok
                 /\ calls'[i] = NoCall
                 /\ todos' = todos
                 /\ \A j \in 1..MaxCalls : j # i => calls'[j] = calls[j]]_vars

\* The case of C23: handleDeleteTodo waits for the task set it asked for
\* after its delete.
C23_DeleteRefetches ==
    \E i \in Waiting :
        /\ calls[i].handler = "handleDeleteTodo"
        /\ calls[i].request.op = "select"
        /\ calls[i].answer = Null
        /\ store.rows = SeededStore.rows

\* All requests of the page have been answered and handled, none with an
\* error.
Settled ==
    /\ currentUser # Null
    /\ Waiting = {}
    /\ ~errorToasted

\* C27: once all outstanding store requests of the page have settled, the
\* local task set equals the store's task set of the current user, for
\* every interleaving of mutations and their re-fetches.
C27_LocalEqualsStoreWhenSettled == Settled => todos = StoredTasks

\* The case of C27: a task was added and deleted again, and everything has
\* settled.
C27_AddedAndDeletedSettled ==
    /\ Settled
    /\ store.nextId > SeededStore.nextId
    /\ StoredTasks = <<>>

\* C28: a submit of the edit form with the completed checkbox as the form
\* showed it when editing started writes, for the task's completed flag,
\* the value the store holds at the submit.
C28_SubmitKeepsCompleted ==
    [][\A i \in 1..MaxCalls :
          (/\ calls[i] = NoCall
           /\ calls'[i] # NoCall
           /\ calls'[i].handler = "handleUpdateTodo"
           /\ formCompleted = FormOf(editingTodo)) =>
              \A r \in Scoped(store, calls'[i].request) :
                  calls'[i].request.fields[1].completed = r.completed]_vars

\* The case of C28: the edit form of a task is submitted with its checkbox
\* untouched after the task was completed from the list.
C28_SubmittedAfterToggle ==
    \E i \in Waiting :
        /\ calls[i].handler = "handleUpdateTodo"
        /\ calls[i].request.op = "update"
        /\ calls[i].answer = Null
        /\ ~calls[i].request.fields[1].completed
        /\ \E r \in Scoped(store, calls[i].request) : r.completed
        /\ \E k \in 1..Len(todos) :
               todos[k].id = calls[i].request.id[1] /\ todos[k].completed

-----------------------------------------------------------------------------
(* Properties of the analysis card *)

\* C24: while an analysis request is in flight isAnalyzing is true, and at
\* most one analysis request is in flight at any time, for every sequence
\* of clicks on the analyse buttons and the retry buttons.
C24_OneRequestWhileAnalyzing ==
    /\ Len(analysisCalls) <= 1
    /\ analysisCalls # <<>> => isAnalyzing

\* The case of C24: the retry button is clicked while a request is in
\* flight.
C24_RetryWhileAnalyzing ==
    /\ Len(analysisCalls) = 2
    /\ analysisError # Null

\* C25: after an analysis request has completed successfully no analysis
\* error is on display: an error stored by an earlier failed request does
\* not stay visible with a later result.
C25_NoErrorAfterSuccess ==
    analysisToast = "success" => analysisError = Null

\* The case of C25: a request has failed and a later one has succeeded.
C25_SucceededAfterFailure ==
    /\ analysisToast = "success"
    /\ analysisData # Null
    /\ analysisCalls = <<>>
    /\ analysisError # Null

\* C26: whenever an analysis result is shown under a period tab, the result
\* and the task subset shown with it were computed for that period, for
\* every sequence of analyse clicks and tab switches.
C26_ResultOfTheTabShown ==
    analysisData # Null =>
        /\ analysisData[1].period = analysisPeriod
        /\ analysisData[1].todos = filteredTodosForAnalysis

\* The case of C26: the result of the week is on display under the week
\* tab after the tab was changed.
C26_WeekResultShown ==
    /\ analysisData # Null
    /\ analysisData[1].period = "week"
    /\ analysisPeriod = "week"
    /\ Len(filteredTodosForAnalysis) = 2
    /\ ~isAnalyzing

-----------------------------------------------------------------------------
(* Properties of the form's fill *)

\* A step of handleAiGenerate that ends with the success toast.
AiGenerateSucceeds ==
    isGenerating /\ ~isGenerating' /\ aiToast' = "success"

\* The instant a datetime-local text of the form denotes and its minutes.
InstantOfLocal(text) ==
    [instant |-> ParseLocalDateTime(SubSeq(text, 1, 10),
                                    SubSeq(text, 11, 16) \o <<":", "0", "0">>),
     minutes |-> SubSeq(text, 15, 16)]

\* The instant a due_date of a response denotes and its minutes.
InstantOfDue(iso) ==
    [instant |-> ParseLocalDateTime(SubSeq(iso, 1, 10), SubSeq(iso, 11, 19)),
     minutes |-> SubSeq(iso, 15, 16)]

\* C29: after a successful AI generation the form's title, description, due
\* date, priority and categories equal the values of that response, an
\* absent due date or description leaving its field empty, whatever the
\* form held before.
C29_FormEqualsResponse ==
    [][AiGenerateSucceeds =>
          /\ formTitle' = aiData'[1].title
          /\ formDescription' = (IF aiData'[1].description = Null THEN <<>>
                                 ELSE aiData'[1].description[1])
          /\ IF aiData'[1].due_date = Null THEN formDueDate' = <<>>
             ELSE /\ Len(formDueDate') = 16
                  /\ InstantOfLocal(formDueDate') = InstantOfDue(aiData'[1].due_date[1])
          /\ formPriority' = aiData'[1].priority
          /\ formCategories' = aiData'[1].category]_vars

\* The case of C29: a generation has filled a form that held a typed
\* description, and its response has none.
C29_FilledOverTypedDescription ==
    /\ aiToast = "success"
    /\ ~isGenerating
    /\ aiData # Null
    /\ aiData[1].description = Null
    /\ aiData[1].title = formTitle
    /\ formDescription = <<"m">>

\* What the response holds is what the form holds after the fill: its
\* title, priority and categories, and its description and its due date
\* when it has them.
FormTakesPresentFields ==
    [][AiGenerateSucceeds =>
          /\ formTitle' = aiData'[1].title
          /\ aiData'[1].description # Null =>
                 formDescription' = aiData'[1].description[1]
          /\ aiData'[1].due_date # Null =>
                 /\ Len(formDueDate') = 16
                 /\ InstantOfLocal(formDueDate') = InstantOfDue(aiData'[1].due_date[1])
          /\ formPriority' = aiData'[1].priority
          /\ formCategories' = aiData'[1].category]_vars

=============================================================================
